---- MODULE Spec2Model ----
(***************************************************************************)
(* The Facebook-link reconciliation scripts of bd-races: the automatic     *)
(* fixer (fixFacebookLinks), the manual fixer (fixRemainingLinks) and the  *)
(* pure functions they rest on (name extraction, name normalisation,       *)
(* Levenshtein similarity).                                                *)
(*                                                                         *)
(* JavaScript strings are TLA+ strings; TLC evaluates Len, SubSeq and \o   *)
(* on them, so a character is a string of length one.  A similarity is the *)
(* exact rational (longer.length - editDistance) / longer.length, kept as  *)
(* a reduced fraction [num, den]: comparing two such fractions by cross    *)
(* multiplication agrees with comparing the IEEE doubles the script        *)
(* computes, since a correctly rounded quotient of two small integers      *)
(* equals the literal 0.7 exactly when the quotient is 7/10.               *)
(***************************************************************************)
EXTENDS Integers, Sequences, FiniteSets, TLC

(***************************************************************************)
(* JavaScript string primitives.                                           *)
(***************************************************************************)

\* s.substring(i - 1, j): characters i..j (1-based), clamped to the string
substring(s, i, j) ==
  LET lo == IF i < 1 THEN 1 ELSE i
      hi == IF j > Len(s) THEN Len(s) ELSE j
  IN  IF lo > hi THEN "" ELSE SubSeq(s, lo, hi)

\* s.charAt(i - 1): the i-th character (1-based), "" outside the string
charAt(s, i) == substring(s, i, i)

\* s.substring(i - 1): from the i-th character to the end
from(s, i) == substring(s, i, Len(s))

\* the characters \d matches
Digits == {"0", "1", "2", "3", "4", "5", "6", "7", "8", "9"}

\* the characters \s and String.prototype.trim treat as white space
WhiteSpace == {" ", "\t", "\n", "\r"}

\* the line terminators the regular expression "." does not match
LineTerminators == {"\n", "\r"}

UpperCase == "ABCDEFGHIJKLMNOPQRSTUVWXYZ"

LowerCase == "abcdefghijklmnopqrstuvwxyz"

\* the lower-case letter of each upper-case letter
LowerOf ==
  [c \in {SubSeq(UpperCase, k, k) : k \in 1..Len(UpperCase)} |->
     LET k == CHOOSE n \in 1..Len(UpperCase) : SubSeq(UpperCase, n, n) = c
     IN  SubSeq(LowerCase, k, k)]

lowerChar(c) == IF c \in DOMAIN LowerOf THEN LowerOf[c] ELSE c

RECURSIVE toLowerCase(_)
toLowerCase(s) ==
  IF s = "" THEN "" ELSE lowerChar(charAt(s, 1)) \o toLowerCase(from(s, 2))

\* s.startsWith(p, i - 1)
matchesAt(s, p, i) == i + Len(p) - 1 <= Len(s) /\ substring(s, i, i + Len(p) - 1) = p

\* s.includes(p)
includes(s, p) == \E i \in 1..(Len(s) - Len(p) + 1) : matchesAt(s, p, i)

allDigits(s) == \A i \in 1..Len(s) : charAt(s, i) \in Digits

\* the length of the longest run of characters of set cs that starts at s[i]
RECURSIVE runLength(_, _, _)
runLength(s, cs, i) ==
  IF i <= Len(s) /\ charAt(s, i) \in cs THEN 1 + runLength(s, cs, i + 1) ELSE 0

\* the length of the longest run of characters of set cs that ends at s[i]
RECURSIVE runLengthBack(_, _, _)
runLengthBack(s, cs, i) ==
  IF i >= 1 /\ charAt(s, i) \in cs THEN 1 + runLengthBack(s, cs, i - 1) ELSE 0

\* s.trim()
trim(s) ==
  LET lead  == runLength(s, WhiteSpace, 1)
      trail == runLengthBack(s, WhiteSpace, Len(s))
  IN  IF lead = Len(s) THEN "" ELSE substring(s, lead + 1, Len(s) - trail)

\* s.split('\n')
RECURSIVE split(_)
split(s) ==
  IF \E i \in 1..Len(s) : charAt(s, i) = "\n"
  THEN LET i == CHOOSE k \in 1..Len(s) :
                  charAt(s, k) = "\n" /\ \A j \in 1..(k - 1) : charAt(s, j) # "\n"
       IN  <<substring(s, 1, i - 1)>> \o split(from(s, i + 1))
  ELSE <<s>>

(***************************************************************************)
(* The regular-expression replacements of normalizeEventName.              *)
(***************************************************************************)

\* s.replace(/[|]/g, '')
RECURSIVE stripPipes(_)
stripPipes(s) ==
  IF s = "" THEN ""
  ELSE (IF charAt(s, 1) = "|" THEN "" ELSE charAt(s, 1)) \o stripPipes(from(s, 2))

\* s.replace(/\s+/g, ' ')
RECURSIVE collapseSpaces(_)
collapseSpaces(s) ==
  IF s = "" THEN ""
  ELSE IF charAt(s, 1) \in WhiteSpace
       THEN " " \o collapseSpaces(from(s, 1 + runLength(s, WhiteSpace, 1)))
       ELSE charAt(s, 1) \o collapseSpaces(from(s, 2))

\* s.replace(/\d+<suffix>$/i, ''): the leftmost match is the whole digit run
\* that ends right before the final suffix
stripDigitsSuffix(s, suffix) ==
  LET n == Len(s) - Len(suffix)
      d == runLengthBack(s, Digits, n)
  IN  IF n >= 1 /\ toLowerCase(from(s, n + 1)) = suffix /\ d >= 1
      THEN substring(s, 1, n - d)
      ELSE s

\* whether /<word>\s*\d+/i matches at s[i], and how many characters
wordNumberLength(s, word, i) ==
  LET w  == i + Len(word)
      sp == runLength(s, WhiteSpace, w)
      d  == runLength(s, Digits, w + sp)
  IN  IF /\ lowerChar(charAt(s, i)) = charAt(word, 1)
         /\ toLowerCase(substring(s, i, w - 1)) = word
         /\ d >= 1
      THEN Len(word) + sp + d
      ELSE 0

\* s.replace(/<word>\s*\d+/i, ''): the first match only (no g flag)
stripWordNumber(s, word) ==
  IF \E i \in 1..Len(s) : wordNumberLength(s, word, i) > 0
  THEN LET i == CHOOSE k \in 1..Len(s) :
                  /\ wordNumberLength(s, word, k) > 0
                  /\ \A j \in 1..(k - 1) : wordNumberLength(s, word, j) = 0
       IN  substring(s, 1, i - 1) \o from(s, i + wordNumberLength(s, word, i))
  ELSE s

\* s.replace(/\d{4}/g, '2025'): left to right, matches do not overlap
RECURSIVE normalizeYears(_)
normalizeYears(s) ==
  IF s = "" THEN ""
  ELSE IF Len(s) >= 4 /\ allDigits(substring(s, 1, 4))
       THEN "2025" \o normalizeYears(from(s, 5))
       ELSE charAt(s, 1) \o normalizeYears(from(s, 2))

\* whether /<phrase>.*$/i matches at s[i]: "." stops at a line terminator and
\* "$" (no m flag) is the end of the string
phraseToEndAt(s, phrase, i) ==
  /\ lowerChar(charAt(s, i)) = charAt(phrase, 1)
  /\ toLowerCase(substring(s, i, i + Len(phrase) - 1)) = phrase
  /\ \A j \in (i + Len(phrase))..Len(s) : charAt(s, j) \notin LineTerminators

\* s.replace(/<phrase>.*$/i, '')
stripFromPhrase(s, phrase) ==
  IF \E i \in 1..Len(s) : phraseToEndAt(s, phrase, i)
  THEN LET i == CHOOSE k \in 1..Len(s) :
                  /\ phraseToEndAt(s, phrase, k)
                  /\ \A j \in 1..(k - 1) : ~phraseToEndAt(s, phrase, j)
       IN  substring(s, 1, i - 1)
  ELSE s

(***************************************************************************)
(* normalizeEventName of the fixer.                                        *)
(***************************************************************************)
normalizeEventName(name) ==
  IF name = "" THEN ""
  ELSE trim(
         stripFromPhrase(
           stripFromPhrase(
             normalizeYears(
               stripWordNumber(
                 stripWordNumber(
                   stripDigitsSuffix(
                     stripDigitsSuffix(
                       collapseSpaces(stripPipes(toLowerCase(name))),
                       "k"),
                     "km"),
                   "edition"),
                 "season")),
             "powered by"),
           "sponsored by"))

\* normalizeEventName of page/js/main.js: no season, year or sponsor rule
mainNormalizeEventName(name) ==
  IF name = "" THEN ""
  ELSE trim(
         stripWordNumber(
           stripDigitsSuffix(
             stripDigitsSuffix(
               collapseSpaces(stripPipes(toLowerCase(name))),
               "k"),
             "km"),
           "edition"))

(***************************************************************************)
(* Similarity: Levenshtein distance over the longer string's length.       *)
(***************************************************************************)
RECURSIVE gcd(_, _)
gcd(a, b) == IF b = 0 THEN a ELSE gcd(b, a % b)

\* the number n / d (d > 0) as a reduced fraction
Frac(n, d) == [num |-> n \div gcd(n, d), den |-> d \div gcd(n, d)]

Zero == Frac(0, 1)

One == Frac(1, 1)

Less(x, y) == x.num * y.den < y.num * x.den

\* a strict comparison where the code has >=
AtLeast_strict(x, y) == Less(y, x)

AtLeast(x, y) == ~Less(x, y)

\* the minimum with the deletion forgotten
Min3_two(a, b, c) == IF a <= b THEN a ELSE b

Min3(a, b, c) == IF a <= b /\ a <= c THEN a ELSE IF b <= c THEN b ELSE c

\* matrix[i] completed from its first columns: row holds matrix[i][0..j-1],
\* prev is matrix[i-1] (column j is element j + 1), ch is str2.charAt(i - 1)
RECURSIVE levenshteinRow(_, _, _, _)
levenshteinRow(str1, ch, prev, row) ==
  LET j == Len(row)
  IN  IF j > Len(str1) THEN row
      ELSE levenshteinRow(str1, ch, prev,
             Append(row, IF ch = charAt(str1, j)
                         THEN prev[j]
                         ELSE Min3(prev[j] + 1, row[j] + 1, prev[j + 1] + 1)))

\* the matrix completed from its first rows: matrix holds rows 0..i-1
RECURSIVE levenshteinMatrix(_, _, _)
levenshteinMatrix(str1, str2, matrix) ==
  LET i == Len(matrix)
  IN  IF i > Len(str2) THEN matrix
      ELSE levenshteinMatrix(str1, str2,
             Append(matrix, levenshteinRow(str1, charAt(str2, i), matrix[i], <<i>>)))

levenshteinDistance(str1, str2) ==
  levenshteinMatrix(str1, str2,
    <<[j \in 1..(Len(str1) + 1) |-> j - 1]>>)[Len(str2) + 1][Len(str1) + 1]

\* the share of the longer string that has to be edited
calculateSimilarity_distance(str1, str2) ==
  IF str1 = "" \/ str2 = "" THEN Zero
  ELSE LET longer  == IF Len(str1) > Len(str2) THEN str1 ELSE str2
           shorter == IF Len(str1) > Len(str2) THEN str2 ELSE str1
       IN  Frac(levenshteinDistance(longer, shorter), Len(longer))

\* the quotient taken over the length of the first string
calculateSimilarity_first(str1, str2) ==
  IF str1 = "" \/ str2 = "" THEN Zero
  ELSE LET longer  == IF Len(str1) > Len(str2) THEN str1 ELSE str2
           shorter == IF Len(str1) > Len(str2) THEN str2 ELSE str1
       IN  Frac(Len(longer) - levenshteinDistance(longer, shorter), Len(str1))

calculateSimilarity(str1, str2) ==
  IF str1 = "" \/ str2 = "" THEN Zero
  ELSE LET longer  == IF Len(str1) > Len(str2) THEN str1 ELSE str2
           shorter == IF Len(str1) > Len(str2) THEN str2 ELSE str1
       IN  IF Len(longer) = 0 THEN One
           ELSE Frac(Len(longer) - levenshteinDistance(longer, shorter), Len(longer))

(***************************************************************************)
(* JavaScript's null and a value that may be null: <<>> or <<v>>.          *)
(***************************************************************************)
null == <<>>

Some(v) == <<v>>

(***************************************************************************)
(* extractEventNameFromRaw of the fixer.                                   *)
(***************************************************************************)

\* an extractor that takes no blob for a login wall
isInaccessible_never(rawContent) == FALSE

\* the blob is a login wall
isInaccessible(rawContent) ==
  \/ includes(rawContent, "You must log in to continue")
  \/ includes(rawContent, "Log in to Facebook")

\* the lines the scan skips: navigation, empty, numeric, time stamps, short
isSkippedLine(line) ==
  \/ includes(line, "Log in")
  \/ includes(line, "Forgotten account")
  \/ includes(line, "Events")
  \/ includes(line, "Home")
  \/ includes(line, "Categories")
  \/ line = ""
  \/ (line # "" /\ allDigits(line))
  \/ (includes(line, "at ") /\ includes(line, "+06"))
  \/ Len(line) < 5

\* a line that may be a title
isTitleCandidate(line) ==
  /\ Len(line) > 10
  /\ Len(line) < 200
  /\ ~includes(line, "facebook.com")
  /\ ~includes(line, "Privacy")
  /\ ~includes(line, "Terms")
  /\ ~includes(line, "Advertising")
  /\ ~includes(line, "people responded")
  /\ ~includes(line, "Event by")
  /\ ~includes(line, "Public")
  /\ ~includes(line, "Anyone on or off Facebook")
  /\ ~includes(line, "Invite")
  /\ ~includes(line, "Details")
  /\ ~includes(line, "Duration")

\* a line that looks like the location or metadata that follows a title
isLocationLike(nextLine) ==
  \/ includes(nextLine, ",")
  \/ includes(nextLine, "Online event")
  \/ includes(nextLine, "Division")
  \/ includes(nextLine, "Bangladesh")
  \/ nextLine = "Invite"
  \/ nextLine = "Details"

\* lines[i] is returned if the scan gets to it
isTitleAt(lines, i) ==
  LET line == trim(lines[i])
  IN  /\ ~isSkippedLine(line)
      /\ isTitleCandidate(line)
      /\ \E k \in (i + 1)..(i + 3) : k <= Len(lines) /\ isLocationLike(trim(lines[k]))

extractEventNameFromRaw(rawContent) ==
  IF rawContent = "" THEN null
  ELSE IF isInaccessible(rawContent) THEN null
  ELSE LET lines == split(rawContent)
       IN  IF \E i \in 1..Len(lines) : isTitleAt(lines, i)
           THEN Some(trim(lines[CHOOSE i \in 1..Len(lines) :
                   isTitleAt(lines, i) /\ \A j \in 1..(i - 1) : ~isTitleAt(lines, j)]))
           ELSE null

\* extractEventNameFromRaw of page/js/main.js: no test of the login wall, no
\* test of short lines, fewer exclusions, and the next line only is looked at
mainIsSkippedLine(line) ==
  \/ includes(line, "Log in")
  \/ includes(line, "Forgotten account")
  \/ includes(line, "Events")
  \/ includes(line, "Home")
  \/ includes(line, "Categories")
  \/ line = ""
  \/ (line # "" /\ allDigits(line))
  \/ (includes(line, "at ") /\ includes(line, "+06"))

mainIsTitleCandidate(line) ==
  /\ Len(line) > 10
  /\ Len(line) < 200
  /\ ~includes(line, "facebook.com")
  /\ ~includes(line, "Privacy")
  /\ ~includes(line, "Terms")
  /\ ~includes(line, "Advertising")
  /\ ~includes(line, "people responded")
  /\ ~includes(line, "Event by")
  /\ ~includes(line, "Public")
  /\ ~includes(line, "Anyone on or off Facebook")

mainIsTitleAt(lines, i) ==
  LET line     == trim(lines[i])
      nextLine == IF i + 1 <= Len(lines) THEN trim(lines[i + 1]) ELSE ""
  IN  /\ ~mainIsSkippedLine(line)
      /\ mainIsTitleCandidate(line)
      /\ isLocationLike(nextLine)

mainExtractEventNameFromRaw(content) ==
  IF content = "" THEN null
  ELSE LET lines == split(content)
       IN  IF \E i \in 1..Len(lines) : mainIsTitleAt(lines, i)
           THEN Some(trim(lines[CHOOSE i \in 1..Len(lines) :
                   mainIsTitleAt(lines, i) /\ \A j \in 1..(i - 1) : ~mainIsTitleAt(lines, j)]))
           ELSE null

(***************************************************************************)
(* The raw_events directory.  The files that may be in it and what each    *)
(* holds are fixed; which of them are there, and the order in which        *)
(* readdirSync lists them, is chosen in Init.                              *)
(***************************************************************************)
FileKhulnaRun == "5000000001.txt"

FileKhulnaFun == "5000000002.txt"

FileSylhet == "42.txt"

FileLoginWall == "5000000003.txt"

FileNotes == "notes.md"

FileSponsor == "77.txt"

FileNoTitle == "88.txt"

FileSponsored == "91.txt"

\* a file readFileSync throws on (no permission to read it)
FileLocked == "13.txt"

\* fs.readFileSync(filePath, 'utf8') throws
throwsOnRead(fileName) == fileName = FileLocked

\* fs.readFileSync(filePath, 'utf8')
readFileSync(fileName) ==
  CASE fileName = FileKhulnaRun -> "Log in\nKhulna Run 10K\nKhulna, Bangladesh"
    [] fileName = FileKhulnaFun -> "Events\nKhulna Fun 5K\nDetails"
    [] fileName = FileSylhet    -> "Sylhet Marathon 2025\nOnline event"
    [] fileName = FileLoginWall -> "Khulna Run 10K\nKhulna, Bangladesh\nYou must log in to continue"
    [] fileName = FileNoTitle   -> "Events\nHome\n12"
    [] fileName = FileSponsor   -> "Powered by Acme Corp\nOnline event"
    [] fileName = FileSponsored ->
         "Khulna Run 10K powered by Acme Corporation\nKhulna, Bangladesh"
    [] OTHER                    -> "Khulna Run 10K\nKhulna, Bangladesh"

\* the listings readdirSync(RAW_EVENTS_DIR) may return
Listings ==
  { <<FileNotes, FileKhulnaRun, FileKhulnaFun, FileSylhet>>,
    <<FileKhulnaFun, FileKhulnaRun, FileSylhet>>,
    <<FileLoginWall, FileSponsor, FileSylhet, FileKhulnaFun>> }

\* file.match(/^(\d+)\.txt$/): the id, or null
eventIdOfFile(file) ==
  LET n == Len(file) - 4
  IN  IF n >= 1 /\ from(file, n + 1) = ".txt" /\ allDigits(substring(file, 1, n))
      THEN Some(substring(file, 1, n))
      ELSE null

RECURSIVE getAllRawEventFiles(_)
getAllRawEventFiles(files) ==
  IF files = <<>> THEN <<>>
  ELSE LET match == eventIdOfFile(Head(files))
       IN  (IF match # null
            THEN <<[eventId |-> match[1], fileName |-> Head(files)]>>
            ELSE <<>>) \o getAllRawEventFiles(Tail(files))

(***************************************************************************)
(* The raw event index: an object keyed by event id.  It is kept as the    *)
(* sequence of its properties in creation order; Object.entries lists the  *)
(* keys that are array indices first, in ascending numeric order, and then *)
(* the other keys in creation order.                                       *)
(***************************************************************************)

\* numeric order of two canonical numeric strings
indexLess(a, b) ==
  \/ Len(a) < Len(b)
  \/ Len(a) = Len(b) /\ \E i \in 1..Len(a) :
       /\ substring(a, 1, i - 1) = substring(b, 1, i - 1)
       /\ \E k \in 1..10 : charAt("0123456789", k) = charAt(a, i)
            /\ \E m \in (k + 1)..10 : charAt("0123456789", m) = charAt(b, i)

\* an array index: a canonical numeric string below 2^32 - 1
isArrayIndex(key) ==
  /\ key # ""
  /\ allDigits(key)
  /\ (key = "0" \/ charAt(key, 1) # "0")
  /\ ~indexLess("4294967294", key)

\* index[key] = value
RECURSIVE setProperty(_, _)
setProperty(index, entry) ==
  IF index = <<>> THEN <<entry>>
  ELSE IF Head(index).eventId = entry.eventId
       THEN <<entry>> \o Tail(index)
       ELSE <<Head(index)>> \o setProperty(Tail(index), entry)

\* index[key], or null
\* a lookup that falls back on the first property when the key is absent
getProperty_first(index, key) ==
  IF \E k \in 1..Len(index) : index[k].eventId = key
  THEN Some(index[CHOOSE k \in 1..Len(index) : index[k].eventId = key])
  ELSE IF index = <<>> THEN null ELSE Some(index[1])

getProperty(index, key) ==
  IF \E k \in 1..Len(index) : index[k].eventId = key
  THEN Some(index[CHOOSE k \in 1..Len(index) : index[k].eventId = key])
  ELSE null

\* the array-index entries of s, sorted
RECURSIVE sortedIndexEntries(_)
sortedIndexEntries(s) ==
  IF s = <<>> THEN <<>>
  ELSE LET k == CHOOSE a \in 1..Len(s) :
                  \A b \in 1..Len(s) : ~indexLess(s[b].eventId, s[a].eventId)
       IN  <<s[k]>> \o sortedIndexEntries(SubSeq(s, 1, k - 1) \o SubSeq(s, k + 1, Len(s)))

\* Object.entries(index)
entries(index) ==
  sortedIndexEntries(SelectSeq(index, LAMBDA e : isArrayIndex(e.eventId)))
    \o SelectSeq(index, LAMBDA e : ~isArrayIndex(e.eventId))

RECURSIVE indexRawFiles(_, _)
indexRawFiles(rawFiles, index) ==
  IF rawFiles = <<>> THEN index
  ELSE LET rawFile == Head(rawFiles)
           name    == extractEventNameFromRaw(readFileSync(rawFile.fileName))
       IN  indexRawFiles(Tail(rawFiles),
             IF throwsOnRead(rawFile.fileName) THEN index
             ELSE IF name # null /\ name[1] # ""
             THEN setProperty(index, [eventId        |-> rawFile.eventId,
                                      eventName      |-> name[1],
                                      normalizedName |-> normalizeEventName(name[1])])
             ELSE index)

\* buildRawEventIndex, over the listing readdirSync returns
buildRawEventIndex(listing) == indexRawFiles(getAllRawEventFiles(listing), <<>>)

\* the line buildRawEventIndex prints for a raw file, after its id
indexLine(rawFile) ==
  IF throwsOnRead(rawFile.fileName) THEN "[Error reading file]"
  ELSE LET name == extractEventNameFromRaw(readFileSync(rawFile.fileName))
       IN  IF name # null /\ name[1] # "" THEN "\"" \o name[1] \o "\""
           ELSE "[Could not extract name]"

\* the lines buildRawEventIndex prints, one per raw file
RECURSIVE indexLog(_)
indexLog(rawFiles) ==
  IF rawFiles = <<>> THEN <<>>
  ELSE <<[eventId |-> Head(rawFiles).eventId, message |-> indexLine(Head(rawFiles))]>>
         \o indexLog(Tail(rawFiles))

(***************************************************************************)
(* The catalog.  An event is a record with a name and, unless the event    *)
(* has none, an fbLink.                                                    *)
(***************************************************************************)
hasLink(event) == "fbLink" \in DOMAIN event

\* typeof event.fbLink === 'string'.  A value of another type is kept as its
\* JSON text in fbLink, with its type in typeofFbLink
linkIsString(event) == hasLink(event) /\ "typeofFbLink" \notin DOMAIN event

\* event.fbLink is truthy
linkIsTruthy(event) ==
  /\ hasLink(event)
  /\ IF linkIsString(event) THEN event.fbLink # ""
     ELSE event.fbLink \notin {"0", "false", "null"}

\* event.fbLink ? event.fbLink.match(...) : null throws a TypeError: event is
\* null (no property can be read), or the link is truthy and has no match method
fixThrows(event) ==
  \/ event = null
  \/ (linkIsTruthy(event) /\ ~linkIsString(event))

\* link.match(/events\/(\d+)/)?.[1]
matchEventId(link) ==
  LET hit(i) == matchesAt(link, "events/", i) /\ runLength(link, Digits, i + 7) >= 1
  IN  IF \E i \in 1..Len(link) : hit(i)
      THEN LET i == CHOOSE k \in 1..Len(link) : hit(k) /\ \A j \in 1..(k - 1) : ~hit(j)
           IN  Some(substring(link, i + 7, i + 6 + runLength(link, Digits, i + 7)))
      ELSE null

\* a link written with a path the id cannot be read back from
eventLink_typo(eventId) == "https://www.facebook.com/event/" \o eventId

\* `https://www.facebook.com/events/${eventId}`
eventLink(eventId) == "https://www.facebook.com/events/" \o eventId

\* the acceptance threshold and the floor of the search, 0.7
Threshold == Frac(7, 10)

(***************************************************************************)
(* findCorrectEventId: the loop over Object.entries(rawEventIndex).        *)
(***************************************************************************)
\* the search with a floor of >= 0.7 where the code has > 0.7
RECURSIVE findBest_floor(_, _, _, _)
findBest_floor(rest, normalizedTarget, bestMatch, bestSimilarity) ==
  IF rest = <<>> THEN bestMatch
  ELSE LET rawEvent   == Head(rest)
           similarity == calculateSimilarity(normalizedTarget, rawEvent.normalizedName)
       IN  IF Less(bestSimilarity, similarity) /\ ~Less(similarity, Threshold)
           THEN findBest_floor(Tail(rest), normalizedTarget,
                               Some([eventId    |-> rawEvent.eventId,
                                     eventName  |-> rawEvent.eventName,
                                     similarity |-> similarity]),
                               similarity)
           ELSE findBest_floor(Tail(rest), normalizedTarget, bestMatch, bestSimilarity)

RECURSIVE findBest(_, _, _, _)
findBest(rest, normalizedTarget, bestMatch, bestSimilarity) ==
  IF rest = <<>> THEN bestMatch
  ELSE LET rawEvent   == Head(rest)
           similarity == calculateSimilarity(normalizedTarget, rawEvent.normalizedName)
       IN  IF Less(bestSimilarity, similarity) /\ Less(Threshold, similarity)
           THEN findBest(Tail(rest), normalizedTarget,
                         Some([eventId    |-> rawEvent.eventId,
                               eventName  |-> rawEvent.eventName,
                               similarity |-> similarity]),
                         similarity)
           ELSE findBest(Tail(rest), normalizedTarget, bestMatch, bestSimilarity)

findCorrectEventId(eventName, index) ==
  findBest(entries(index), normalizeEventName(eventName), null, Zero)

\* an assignment that builds the record anew from its name and the link
setLink_bare(event, newLink) == [name |-> event.name, fbLink |-> newLink]

\* event.fbLink = newLink
setLink(event, newLink) == [event EXCEPT !.fbLink = newLink]

\* delete event.fbLink
deleteLink(event) == [f \in DOMAIN event \ {"fbLink"} |-> event[f]]

(***************************************************************************)
(* One iteration of the loop of fixFacebookLinks: what becomes of events[i]*)
(* and the entry pushed to fixes, if any.                                  *)
(***************************************************************************)
fixEvent(event, i, index) ==
  LET currentEventId == IF hasLink(event) /\ event.fbLink # ""
                        THEN matchEventId(event.fbLink) ELSE null
      unchanged(kind) == [kind |-> kind, event |-> event, fixes |-> <<>>]
  IN  IF currentEventId = null THEN unchanged("no link")
      ELSE
      LET currentRawEvent == getProperty(index, currentEventId[1])
      IN  IF currentRawEvent = null THEN unchanged("raw file not found")
          ELSE
          LET currentSimilarity == calculateSimilarity(normalizeEventName(event.name),
                                                       currentRawEvent[1].normalizedName)
          IN  IF AtLeast(currentSimilarity, Threshold) THEN unchanged("correct")
              ELSE
              LET correctMatch == findCorrectEventId(event.name, index)
              IN  IF correctMatch # null /\ correctMatch[1].eventId # currentEventId[1]
                  THEN LET newLink == eventLink(correctMatch[1].eventId)
                       IN  [kind  |-> "fixed",
                            event |-> setLink(event, newLink),
                            fixes |-> <<[eventIndex   |-> i,
                                         eventName    |-> event.name,
                                         oldEventId   |-> currentEventId[1],
                                         oldEventName |-> currentRawEvent[1].eventName,
                                         newEventId   |-> correctMatch[1].eventId,
                                         newEventName |-> correctMatch[1].eventName,
                                         similarity   |-> correctMatch[1].similarity,
                                         oldLink      |-> event.fbLink,
                                         newLink      |-> newLink]>>]
                  ELSE unchanged("no good match")

(***************************************************************************)
(* fixRemainingLinks: the table of manual corrections and one iteration of *)
(* its loop.                                                               *)
(***************************************************************************)
manualCorrections ==
  << [eventName      |-> "CUMILLA MARATHON 2025 | 42.195k",
      currentEventId |-> "555332594315963",
      correctEventId |-> Some("788897559329643"),
      reason         |-> "CUMILLA MARATHON content found in event 788897559329643"],
     [eventName      |-> "CUMILLA MARATHON 2025 | 21.0975k",
      currentEventId |-> "555332594315963",
      correctEventId |-> Some("788897559329643"),
      reason         |-> "CUMILLA MARATHON content found in event 788897559329643"],
     [eventName      |-> "SHERPUR HALF MARATHON 2025 | 21.1k",
      currentEventId |-> "788897559329643",
      correctEventId |-> Some("575514851888090"),
      reason         |-> "SHERPUR HALF MARATHON content should be in event 575514851888090"],
     [eventName      |-> "CRC Mini Race 2025 | 2.1k",
      currentEventId |-> "575514851888090",
      correctEventId |-> null,
      reason         |-> "No matching Facebook event found for CRC Mini Race"],
     [eventName      |-> "Bahadurpur Runners 10K Run( Mini Marathon 2025) | 10k",
      currentEventId |-> "1508440780167582",
      correctEventId |-> Some("1124892606242993"),
      reason         |-> "English event name should link to English Facebook event"] >>

\* the predicate of manualCorrections.find
correctionApplies(c, event) ==
  /\ event.name = c.eventName
  /\ hasLink(event) /\ event.fbLink # ""
  /\ includes(event.fbLink, c.currentEventId)

correctEvent(event, i) ==
  IF \E k \in 1..Len(manualCorrections) : correctionApplies(manualCorrections[k], event)
  THEN LET correction == manualCorrections[CHOOSE k \in 1..Len(manualCorrections) :
                           /\ correctionApplies(manualCorrections[k], event)
                           /\ \A j \in 1..(k - 1) :
                                ~correctionApplies(manualCorrections[j], event)]
           newLink == IF correction.correctEventId # null
                      THEN Some(eventLink(correction.correctEventId[1])) ELSE null
       IN  [kind  |-> IF newLink # null THEN "fixed" ELSE "removed",
            event |-> IF newLink # null
                      THEN setLink(event, newLink[1])
                      ELSE deleteLink(event),
            fixes |-> <<[eventIndex |-> i,
                         eventName  |-> event.name,
                         oldEventId |-> correction.currentEventId,
                         newEventId |-> correction.correctEventId,
                         oldLink    |-> event.fbLink,
                         newLink    |-> newLink,
                         reason     |-> correction.reason]>>]
  ELSE [kind |-> "none", event |-> event, fixes |-> <<>>]

(***************************************************************************)
(* check_events.js: the ids of the raw files against the ids the fbLinks   *)
(* of events.json hold.  A Set and a Map are kept as sequences in          *)
(* insertion order, which is their iteration order.                        *)
(***************************************************************************)

\* new Set(ids): the ids without repetition, in order of first occurrence
RECURSIVE toSet(_)
toSet(ids) ==
  IF ids = <<>> THEN <<>>
  ELSE LET rest == toSet(SubSeq(ids, 1, Len(ids) - 1))
           id   == ids[Len(ids)]
       IN  IF \E k \in 1..Len(rest) : rest[k] = id THEN rest ELSE Append(rest, id)

\* set.has(id)
has(set, id) == \E k \in 1..Len(set) : set[k] = id

\* readRawEventIds: the ids of the files named <digits>.txt
RECURSIVE readRawEventIds(_)
readRawEventIds(files) ==
  IF files = <<>> THEN <<>>
  ELSE LET m    == eventIdOfFile(files[Len(files)])
           rest == readRawEventIds(SubSeq(files, 1, Len(files) - 1))
       IN  IF m # null /\ ~has(rest, m[1]) THEN Append(rest, m[1]) ELSE rest

\* fbLink.match(/facebook\.com\/events\/(\d+)/i)
matchFacebookId(link) ==
  LET prefix == "facebook.com/events/"
      hit(k) == /\ lowerChar(charAt(link, k)) = charAt(prefix, 1)
                /\ toLowerCase(substring(link, k, k + Len(prefix) - 1)) = prefix
                /\ runLength(link, Digits, k + Len(prefix)) >= 1
  IN  IF \E k \in 1..Len(link) : hit(k)
      THEN LET k == CHOOSE n \in 1..Len(link) : hit(n) /\ \A j \in 1..(n - 1) : ~hit(j)
           IN  Some(substring(link, k + Len(prefix),
                              k + Len(prefix) - 1 + runLength(link, Digits, k + Len(prefix))))
      ELSE null

\* the ids of extractIdsFromEvents, one per event whose fbLink holds one
RECURSIVE allIdsOf(_)
allIdsOf(evts) ==
  IF evts = <<>> THEN <<>>
  ELSE LET evt  == evts[Len(evts)]
           rest == allIdsOf(SubSeq(evts, 1, Len(evts) - 1))
           m    == IF hasLink(evt) /\ evt.fbLink # "" THEN matchFacebookId(evt.fbLink)
                   ELSE null
       IN  IF m # null THEN Append(rest, m[1]) ELSE rest

\* occurrences.get(id): how many of the ids are id
RECURSIVE occurrencesOf(_, _)
occurrencesOf(allIds, id) ==
  IF allIds = <<>> THEN 0
  ELSE (IF Head(allIds) = id THEN 1 ELSE 0) + occurrencesOf(Tail(allIds), id)

\* the entries of the Map occurrences: one per id, with its count
RECURSIVE occurrenceEntries(_, _)
occurrenceEntries(keys, allIds) ==
  IF keys = <<>> THEN <<>>
  ELSE <<[id |-> Head(keys), count |-> occurrencesOf(allIds, Head(keys))]>>
         \o occurrenceEntries(Tail(keys), allIds)

\* what extractIdsFromEvents returns for the ids it pushed
extracted(allIds) ==
  [allIds |-> allIds, occurrences |-> occurrenceEntries(toSet(allIds), allIds)]

\* extractIdsFromEvents: occurrences is the Map id -> count, as its entries
extractIdsFromEvents(evts) == extracted(allIdsOf(evts))

\* a filter that keeps the ids the set holds
RECURSIVE missingFrom_held(_, _)
missingFrom_held(ids, set) ==
  IF ids = <<>> THEN <<>>
  ELSE (IF has(set, Head(ids)) THEN <<Head(ids)>> ELSE <<>>)
         \o missingFrom_held(Tail(ids), set)

\* the ids of a sequence that a set does not hold, in order
RECURSIVE missingFrom(_, _)
missingFrom(ids, set) ==
  IF ids = <<>> THEN <<>>
  ELSE (IF has(set, Head(ids)) THEN <<>> ELSE <<Head(ids)>>) \o missingFrom(Tail(ids), set)

\* a filter that keeps every entry of occurrences
RECURSIVE duplicatesOf_all(_)
duplicatesOf_all(occurrences) ==
  IF occurrences = <<>> THEN <<>>
  ELSE <<Head(occurrences)>> \o duplicatesOf_all(Tail(occurrences))

\* the entries of occurrences with count > 1
RECURSIVE duplicatesOf(_)
duplicatesOf(occurrences) ==
  IF occurrences = <<>> THEN <<>>
  ELSE (IF Head(occurrences).count > 1 THEN <<Head(occurrences)>> ELSE <<>>)
         \o duplicatesOf(Tail(occurrences))

\* the order of the default sort and of localeCompare on strings of digits
RECURSIVE lexLess(_, _)
lexLess(a, b) ==
  IF a = "" THEN b # ""
  ELSE IF b = "" THEN FALSE
  ELSE IF charAt(a, 1) = charAt(b, 1) THEN lexLess(from(a, 2), from(b, 2))
  ELSE LET code(c) == CHOOSE n \in 0..9 : charAt("0123456789", n + 1) = c
       IN  code(charAt(a, 1)) < code(charAt(b, 1))

\* ids.sort()
RECURSIVE sortIds(_)
sortIds(ids) ==
  IF ids = <<>> THEN <<>>
  ELSE LET least == CHOOSE k \in 1..Len(ids) :
                      \A j \in 1..Len(ids) : j = k \/ lexLess(ids[k], ids[j]) \/ (ids[k] = ids[j] /\ k < j)
       IN  <<ids[least]>>
             \o sortIds(SubSeq(ids, 1, least - 1) \o SubSeq(ids, least + 1, Len(ids)))

\* duplicates.sort((a, b) => a.id.localeCompare(b.id))
RECURSIVE sortDuplicates(_)
sortDuplicates(dups) ==
  IF dups = <<>> THEN <<>>
  ELSE LET least == CHOOSE k \in 1..Len(dups) :
                      \A j \in 1..Len(dups) : j = k \/ lexLess(dups[k].id, dups[j].id)
       IN  <<dups[least]>>
             \o sortDuplicates(SubSeq(dups, 1, least - 1) \o SubSeq(dups, least + 1, Len(dups)))

\* a flag that forgets the duplicates
mismatch_two(missingInEventsJson, missingRawFiles, duplicates) ==
  Len(missingInEventsJson) > 0 \/ Len(missingRawFiles) > 0

\* summary.mismatch
mismatch(missingInEventsJson, missingRawFiles, duplicates) ==
  Len(missingInEventsJson) > 0 \/ Len(missingRawFiles) > 0 \/ Len(duplicates) > 0

\* the object analyze returns
report(rawIds, allIds, eventIdSet, missingInEventsJson, missingRawFiles, duplicates) ==
  [summary |->
     [totalRawFiles            |-> Len(rawIds),
      totalEventEntriesScanned |-> Len(allIds),
      uniqueEventIdsInJson     |-> Len(eventIdSet),
      missingInEventsJsonCount |-> Len(missingInEventsJson),
      missingRawFilesCount     |-> Len(missingRawFiles),
      duplicateIdCount         |-> Len(duplicates),
      mismatch |-> mismatch(missingInEventsJson, missingRawFiles, duplicates)],
   missingInEventsJson |-> missingInEventsJson,
   missingRawFiles     |-> missingRawFiles,
   duplicates          |-> duplicates]

\* the three comparisons of analyze and their sorts
compare(rawIds, allIds, occurrences, eventIdSet) ==
  report(rawIds, allIds, eventIdSet,
         sortIds(missingFrom(rawIds, eventIdSet)),
         sortIds(missingFrom(eventIdSet, rawIds)),
         sortDuplicates(duplicatesOf(occurrences)))

\* analyze, once the ids of both sides are read
analyzeIds(rawIds, ex) == compare(rawIds, ex.allIds, ex.occurrences, toSet(ex.allIds))

\* analyze, on the listing of raw_events and the events of events.json
analyze(files, evts) == analyzeIds(readRawEventIds(files), extractIdsFromEvents(evts))

\* the last line formatHuman prints
resultLine(result) ==
  IF result.summary.mismatch THEN "RESULT: INCONSISTENCIES FOUND" ELSE "RESULT: OK"

(***************************************************************************)
(* The bounds of the model and the inputs Init draws.                      *)
(***************************************************************************)

\* the catalog holds at most MaxEvents events
MaxEvents == 2

\* the scripts are run at most MaxRuns times
MaxRuns == 2

\* the strings calculateSimilarity is applied to hold at most MaxStrLen characters
MaxStrLen == 3

\* a name is normalized, and what comes out normalized again, MaxApplications
\* times in all
MaxApplications == 2

MaxFiles == 2

\* the timers of a kind that may be pending at a time
MaxTimers == 3

\* the events a catalog is made of
EventPool ==
  { [name |-> "Khulna Fog",       fbLink |-> "https://www.facebook.com/events/5000000001/"],
    [name |-> "Khulna Run | 10k", fbLink |-> "https://www.facebook.com/events/42",
     date |-> "2025-12-21"],
    [name |-> "Khulna Sun | 10k", fbLink |-> "https://www.facebook.com/events/42/?ref=share"],
    [name |-> "Khulna Jog",       fbLink |-> "https://www.facebook.com/events/42/"],
    [name |-> "Sylhet Trail 2026"],
    [name |-> "10k",              fbLink |-> "https://www.facebook.com/events/77"],
    [name   |-> "CRC Mini Race 2025 | 2.1k",
     fbLink |-> "https://www.facebook.com/events/575514851888090/"],
    [name   |-> "SHERPUR HALF MARATHON 2025 | 21.1k",
     fbLink |-> "https://www.facebook.com/events/788897559329643/"] }

Catalogs == UNION {[1..n -> EventPool] : n \in 0..MaxEvents}

\* the strings over {a, b} of at most MaxStrLen characters
RECURSIVE StringsOfLength(_)
StringsOfLength(n) ==
  IF n = 0 THEN {""} ELSE {s \o c : s \in StringsOfLength(n - 1), c \in {"a", "b"}}

\* the names the similarity is documented with
Samples == {"kitten", "sitting", "abc", "xyz"}

\* the names normalizeEventName is applied to
Names ==
  { "",
    "Color Run 2025",
    "  COLOR   run   2026  ",
    "Run 10k",
    "Run 10k ",
    "RUN  10K",
    "Race 5k 10km",
    "Cup Edition 1 Edition 2",
    "Cup Season 3 | 21k",
    "Trail 20251 5km",
    "Fun Run Powered By Acme 2024" }

Strings == UNION {StringsOfLength(n) : n \in 0..MaxStrLen} \cup Samples

(***************************************************************************)
(* The state: the files on disk, the runs so far, and the running script.  *)
(***************************************************************************)
VARIABLES
  eventsFile,     \* page/events.json: [complete, data]
  backups,        \* the events.json.backup.* files, in creation order
  fixReport,      \* fblink_fixes_report.json: null or a file
  manualReport,   \* manual_fblink_fixes_report.json: null or a file
  rawDir,         \* the listing of raw_events, in readdirSync order
  runs,           \* the scripts started so far, "fix" or "manual"
  pc,             \* where the running script is
  killed,         \* the running script was interrupted where it was
  events,         \* its events array
  rawEventIndex,  \* its index (fix script)
  i,              \* its loop index, 1-based
  fixedCount,
  fixes,
  console,        \* the lines it printed about events: [eventIndex, message]
  str1,           \* the arguments of a call of calculateSimilarity
  str2,
  similarity,     \* and what it returned: null before the call
  normalized,     \* the names str1, str2 normalized, and normalized again
  checked,        \* what a run of check_events.js gave: null before it
  rawContent,     \* the argument of a call of extractEventNameFromRaw
  eventName,      \* and what it returned: null before the call
  links,          \* the hrefs of the a[href*="/events/"] of the page
  uniqueCleanedLinks,
  noNewLinksCounter,
  scraperIntervalId,  \* null, or the id of the interval that is set
  allEventLinks,  \* window.allEventLinks: null until published
  scrapeLog,      \* per interval: the new links found, and whether it scrolled
  mobileOpen,     \* #filterSidebar carries the class mobile-open
  toggleActive,   \* .mobile-menu-toggle carries the class active
  sidebarDisplay, \* sidebar.style.display
  sidebarOpacity, \* sidebar.style.opacity
  bodyOverflow,   \* document.body.style.overflow
  hideTimers,     \* the pending 300 ms timers
  redrawTimers,   \* the pending 0 ms timers
  opacityTimers,  \* the pending 50 ms timers
  verification    \* what verifyFacebookLinks returned: null before it

vars == <<eventsFile, backups, fixReport, manualReport, rawDir, runs, pc, killed,
          events, rawEventIndex, i, fixedCount, fixes, console,
          str1, str2, similarity, normalized, checked,
          rawContent, eventName,
          links, uniqueCleanedLinks, noNewLinksCounter, scraperIntervalId,
          allEventLinks, scrapeLog,
          mobileOpen, toggleActive, sidebarDisplay, sidebarOpacity, bodyOverflow,
          hideTimers, redrawTimers, opacityTimers,
          verification>>

disk == <<eventsFile, backups, fixReport, manualReport, rawDir>>

call == <<str1, str2, similarity, normalized, checked>>

extraction == <<rawContent, eventName>>

scraper == <<links, uniqueCleanedLinks, noNewLinksCounter, scraperIntervalId,
             allEventLinks, scrapeLog>>

ui == <<mobileOpen, toggleActive, sidebarDisplay, sidebarOpacity, bodyOverflow,
        hideTimers, redrawTimers, opacityTimers>>

\* what the node scripts leave alone: the page in the browser
browser == <<extraction, scraper, ui>>

\* a file whose content was written in full
File(data) == [complete |-> TRUE, data |-> data]

\* a file opened for writing (truncated) whose content is not written yet
Truncated == [complete |-> FALSE, data |-> <<>>]

script == runs[Len(runs)]

\* no script has run
NoRun ==
  /\ backups = <<>>
  /\ fixReport = null
  /\ manualReport = null
  /\ runs = <<>>
  /\ killed = FALSE
  /\ events = <<>>
  /\ rawEventIndex = <<>>
  /\ i = 1
  /\ fixedCount = 0
  /\ fixes = <<>>
  /\ console = <<>>

\* extractEventNameFromRaw has not been called
NoExtraction == rawContent = "" /\ eventName = null

\* the scraper was not pasted in the console
NoScraper ==
  /\ links = {}
  /\ uniqueCleanedLinks = {}
  /\ noNewLinksCounter = 0
  /\ scraperIntervalId = null
  /\ allEventLinks = null
  /\ scrapeLog = <<>>

\* the page as it is loaded: the sidebar closed, no inline style, no timer
NoUI ==
  /\ mobileOpen = FALSE
  /\ toggleActive = FALSE
  /\ sidebarDisplay = ""
  /\ sidebarOpacity = ""
  /\ bodyOverflow = ""
  /\ hideTimers = 0
  /\ redrawTimers = 0
  /\ opacityTimers = 0

NoBrowser == NoExtraction /\ NoScraper /\ NoUI

\* the verifier has not run
NoVerification == verification = null

Init ==
  /\ eventsFile \in {File(c) : c \in Catalogs}
  /\ rawDir \in Listings
  /\ NoRun
  /\ NoBrowser
  /\ NoVerification
  /\ pc = "idle"
  /\ str1 = "" /\ str2 = "" /\ similarity = null /\ normalized = <<>>
  /\ checked = null

\* a script may be started: none is running, and the manual script, which
\* corrects what the fix script left, is the last one run
mayStart ==
  /\ pc \in {"idle", "done"}
  /\ ~killed
  /\ Len(runs) < MaxRuns
  /\ \A k \in 1..Len(runs) : runs[k] = "fix"
  /\ eventsFile.complete

\* node fix_fblinks.js: parseEventsJson and buildRawEventIndex
StartFix ==
  /\ mayStart
  /\ runs' = Append(runs, "fix")
  /\ events' = eventsFile.data
  /\ rawEventIndex' = buildRawEventIndex(rawDir)
  /\ i' = 1 /\ fixedCount' = 0 /\ fixes' = <<>> /\ console' = <<>>
  /\ pc' = "loop"
  /\ UNCHANGED <<disk, killed, call, browser, verification>>

\* node fix_remaining_fblinks.js: parseEventsJson
StartManual ==
  /\ mayStart
  /\ runs' = Append(runs, "manual")
  /\ events' = eventsFile.data
  /\ rawEventIndex' = <<>>
  /\ i' = 1 /\ fixedCount' = 0 /\ fixes' = <<>> /\ console' = <<>>
  /\ pc' = "loop"
  /\ UNCHANGED <<disk, killed, call, browser, verification>>

\* the outcomes of an iteration nothing is printed for: the link is accepted
\* (fix script), no manual correction applies (manual script)
Silent == {"correct", "none"}

\* the end of an iteration: events[i] as the iteration leaves it, the entry
\* pushed to fixes (if any) counted in fixedCount, and i++
applyOutcome(outcome) ==
  /\ events' = [events EXCEPT ![i] = outcome.event]
  /\ fixes' = fixes \o outcome.fixes
  /\ fixedCount' = fixedCount + Len(outcome.fixes)
  /\ console' = IF outcome.kind \in Silent THEN console
                ELSE Append(console, [eventIndex |-> i, message |-> outcome.kind])
  /\ i' = i + 1
  /\ UNCHANGED <<disk, runs, pc, killed, rawEventIndex, call, browser, verification>>

\* one iteration of the loop of fixFacebookLinks
FixEvent ==
  /\ pc = "loop" /\ ~killed /\ script = "fix" /\ i <= Len(events)
  /\ ~fixThrows(events[i])
  /\ applyOutcome(fixEvent(events[i], i, rawEventIndex))

\* the iteration throws a TypeError: the catch of main prints 'Fatal error'
\* and process.exit(1) ends the script, nothing written
FixEventThrows ==
  /\ pc = "loop" /\ ~killed /\ script = "fix" /\ i <= Len(events)
  /\ fixThrows(events[i])
  /\ pc' = "crashed"
  /\ UNCHANGED <<disk, runs, killed, events, rawEventIndex, i, fixedCount, fixes, console,
                 call, browser, verification>>

\* one iteration of the loop of fixRemainingLinks
CorrectEvent ==
  /\ pc = "loop" /\ ~killed /\ script = "manual" /\ i <= Len(events)
  /\ applyOutcome(correctEvent(events[i], i))

\* the loop is over: if (fixedCount > 0) ... else 'No corrections needed.'
\* (the loop over likelyCorrectEvents of fixRemainingLinks only prints)
EndLoop ==
  /\ pc = "loop" /\ ~killed /\ i > Len(events)
  /\ pc' = IF fixedCount > 0 THEN "backup" ELSE "done"
  /\ UNCHANGED <<disk, runs, killed, events, rawEventIndex, i, fixedCount, fixes, console, call, browser, verification>>

\* a backup taken of the corrected events instead of the file
Backup_corrected ==
  /\ pc = "backup" /\ ~killed
  /\ backups' = Append(backups, File(events))
  /\ pc' = "open events"
  /\ UNCHANGED <<eventsFile, fixReport, manualReport, rawDir, runs, killed,
                 events, rawEventIndex, i, fixedCount, fixes, console, call, browser, verification>>

\* fs.copyFileSync(EVENTS_JSON_PATH, backupPath)
Backup ==
  /\ pc = "backup" /\ ~killed
  /\ backups' = Append(backups, eventsFile)
  /\ pc' = "open events"
  /\ UNCHANGED <<eventsFile, fixReport, manualReport, rawDir, runs, killed,
                 events, rawEventIndex, i, fixedCount, fixes, console, call, browser, verification>>

\* fs.writeFileSync(EVENTS_JSON_PATH, ...): the file is opened and truncated,
OpenEvents ==
  /\ pc = "open events" /\ ~killed
  /\ eventsFile' = Truncated
  /\ pc' = "write events"
  /\ UNCHANGED <<backups, fixReport, manualReport, rawDir, runs, killed,
                 events, rawEventIndex, i, fixedCount, fixes, console, call, browser, verification>>

\* the write of the catalog, writing back what the backup holds
WriteEvents_backup ==
  /\ pc = "write events" /\ ~killed
  /\ eventsFile' = File(backups[Len(backups)].data)
  /\ pc' = "open report"
  /\ UNCHANGED <<backups, fixReport, manualReport, rawDir, runs, killed,
                 events, rawEventIndex, i, fixedCount, fixes, console, call, browser, verification>>

\* and then the catalog is written to it
WriteEvents ==
  /\ pc = "write events" /\ ~killed
  /\ eventsFile' = File(events)
  /\ pc' = "open report"
  /\ UNCHANGED <<backups, fixReport, manualReport, rawDir, runs, killed,
                 events, rawEventIndex, i, fixedCount, fixes, console, call, browser, verification>>

\* fs.writeFileSync(reportPath, ...), likewise
OpenReport ==
  /\ pc = "open report" /\ ~killed
  /\ IF script = "fix"
     THEN fixReport' = Some(Truncated) /\ UNCHANGED manualReport
     ELSE manualReport' = Some(Truncated) /\ UNCHANGED fixReport
  /\ pc' = "write report"
  /\ UNCHANGED <<eventsFile, backups, rawDir, runs, killed,
                 events, rawEventIndex, i, fixedCount, fixes, console, call, browser, verification>>

\* a report holding the last correction only
WriteReport_last ==
  /\ pc = "write report" /\ ~killed
  /\ IF script = "fix"
     THEN fixReport' = Some(File(<<fixes[Len(fixes)]>>)) /\ UNCHANGED manualReport
     ELSE manualReport' = Some(File(<<fixes[Len(fixes)]>>)) /\ UNCHANGED fixReport
  /\ pc' = "done"
  /\ UNCHANGED <<eventsFile, backups, rawDir, runs, killed,
                 events, rawEventIndex, i, fixedCount, fixes, console, call, browser, verification>>

WriteReport ==
  /\ pc = "write report" /\ ~killed
  /\ IF script = "fix"
     THEN fixReport' = Some(File(fixes)) /\ UNCHANGED manualReport
     ELSE manualReport' = Some(File(fixes)) /\ UNCHANGED fixReport
  /\ pc' = "done"
  /\ UNCHANGED <<eventsFile, backups, rawDir, runs, killed,
                 events, rawEventIndex, i, fixedCount, fixes, console, call, browser, verification>>

\* the process is interrupted (killed, power loss): it stops where it is and
\* the disk stays as it is
Kill ==
  /\ pc \notin {"idle", "done"} /\ ~killed
  /\ killed' = TRUE
  /\ UNCHANGED <<disk, runs, pc, events, rawEventIndex, i, fixedCount, fixes, console, call, browser, verification>>

Next ==
  \/ StartFix
  \/ StartManual
  \/ FixEvent
  \/ CorrectEvent
  \/ EndLoop
  \/ Backup
  \/ OpenEvents
  \/ WriteEvents
  \/ OpenReport
  \/ WriteReport
  \/ Kill

Spec == Init /\ [][Next]_vars

(***************************************************************************)
(* calculateSimilarity alone: applied once to two strings.                 *)
(***************************************************************************)
InitSim ==
  /\ eventsFile = File(<<>>)
  /\ rawDir = <<>>
  /\ NoRun
  /\ NoBrowser
  /\ NoVerification
  /\ pc = "call"
  /\ str1 \in Strings /\ str2 \in Strings /\ similarity = null /\ normalized = <<>>
  /\ checked = null

CallSimilarity ==
  /\ pc = "call"
  /\ similarity' = Some(calculateSimilarity(str1, str2))
  /\ pc' = "returned"
  /\ UNCHANGED <<disk, runs, killed, events, rawEventIndex, i, fixedCount, fixes,
                 console, str1, str2, normalized, checked, browser, verification>>

NextSim == CallSimilarity

SpecSim == InitSim /\ [][NextSim]_vars

(***************************************************************************)
(* normalizeEventName alone: applied to two names, and to what comes out.  *)
(***************************************************************************)
InitNorm ==
  /\ eventsFile = File(<<>>)
  /\ rawDir = <<>>
  /\ NoRun
  /\ NoBrowser
  /\ NoVerification
  /\ pc \in {"normalize", "normalize (main.js)"}
  /\ str1 \in Names /\ str2 \in Names /\ similarity = null /\ normalized = <<>>
  /\ checked = null

\* the normalizeEventName of the script that runs
applyNormalizer(name) ==
  IF pc = "normalize" THEN normalizeEventName(name) ELSE mainNormalizeEventName(name)

CallNormalize ==
  /\ pc \in {"normalize", "normalize (main.js)"}
  /\ Len(normalized) < MaxApplications
  /\ normalized' =
       Append(normalized,
              IF normalized = <<>>
              THEN <<applyNormalizer(str1), applyNormalizer(str2)>>
              ELSE <<applyNormalizer(normalized[Len(normalized)][1]),
                     applyNormalizer(normalized[Len(normalized)][2])>>)
  /\ UNCHANGED <<disk, runs, pc, killed, events, rawEventIndex, i, fixedCount, fixes,
                 console, str1, str2, similarity, checked, browser, verification>>

NextNorm == CallNormalize

SpecNorm == InitNorm /\ [][NextNorm]_vars

(***************************************************************************)
(* node check_events.js [--json], run once on a catalog and a directory of *)
(* raw files; events.json may be the file an interrupted fix run left.     *)
(***************************************************************************)
\* the directories the checker is run on: those of the fix runs, and two
\* small enough for a catalog of MaxEvents records to reference every file
CheckListings == Listings \cup { <<FileSylhet, FileKhulnaRun, FileNotes>>, <<FileSylhet, FileNotes>> }

InitCheck ==
  /\ eventsFile \in {File(c) : c \in Catalogs} \cup {Truncated}
  /\ rawDir \in CheckListings
  /\ NoRun
  /\ NoBrowser
  /\ NoVerification
  /\ pc = "check"
  /\ str1 = "" /\ str2 = "" /\ similarity = null /\ normalized = <<>>
  /\ checked = null

\* what main leaves behind when analyze returned: the output and the status
exitOf(jsonOutput, res) ==
  Some([jsonOutput |-> jsonOutput,
        fatal      |-> FALSE,
        result     |-> Some(res),
        stdout     |-> IF jsonOutput THEN null ELSE Some(resultLine(res)),
        exitStatus |-> IF res.summary.mismatch THEN 1 ELSE 0])

\* main of check_events.js: analyze, print, exit; a file that does not parse
\* is a fatal error
CheckEvents ==
  /\ pc = "check"
  /\ \E jsonOutput \in BOOLEAN :
       checked' =
         IF ~eventsFile.complete
         THEN Some([jsonOutput |-> jsonOutput,
                    fatal      |-> TRUE,
                    result     |-> null,
                    stdout     |-> null,
                    exitStatus |-> 1])
         ELSE exitOf(jsonOutput, analyze(rawDir, eventsFile.data))
  /\ pc' = "exited"
  /\ UNCHANGED <<disk, runs, killed, events, rawEventIndex, i, fixedCount, fixes,
                 console, str1, str2, similarity, normalized, browser, verification>>

NextCheck == CheckEvents

SpecCheck == InitCheck /\ [][NextCheck]_vars

(***************************************************************************)
(* buildRawEventIndex alone, on a directory that may hold files of every   *)
(* kind: with and without a title, behind the login wall, unreadable.      *)
(***************************************************************************)
RawFiles ==
  {FileKhulnaRun, FileKhulnaFun, FileSylhet, FileLoginWall, FileSponsor, FileNoTitle,
   FileLocked, FileNotes}

\* the listings of up to MaxFiles of the files, in any order
IndexListings ==
  {l \in UNION {[1..n -> RawFiles] : n \in 0..MaxFiles} :
     \A a, b \in 1..Len(l) : a # b => l[a] # l[b]}

InitIndex ==
  /\ eventsFile = File(<<>>)
  /\ rawDir \in IndexListings
  /\ NoRun
  /\ NoBrowser
  /\ NoVerification
  /\ pc = "index"
  /\ str1 = "" /\ str2 = "" /\ similarity = null /\ normalized = <<>>
  /\ checked = null

\* buildRawEventIndex: the index it returns and the lines it prints
BuildIndex ==
  /\ pc = "index"
  /\ rawEventIndex' = buildRawEventIndex(rawDir)
  /\ console' = indexLog(getAllRawEventFiles(rawDir))
  /\ pc' = "indexed"
  /\ UNCHANGED <<disk, runs, killed, events, i, fixedCount, fixes, call, browser, verification>>

NextIndex == BuildIndex

SpecIndex == InitIndex /\ [][NextIndex]_vars

(***************************************************************************)
(* extractEventNameFromRaw alone, of either script, applied once to a blob *)
(* made of an optional navigation line, a line of a chosen length and the  *)
(* lines under it.                                                         *)
(***************************************************************************)

\* a line of n characters without space or excluded word
titleOfLength(n) ==
  LET ten   == "Khulna-Run"
      fifty == ten \o ten \o ten \o ten \o ten
  IN  substring(fifty \o fifty \o fifty \o fifty \o ten, 1, n)

TitleLengths == {4, 9, 10, 11, 12, 199, 200, 201}

Prefixes == {"", "Events\n", "Log in\n"}

Trailers == {"", "\nKhulna, Bangladesh", "\nOnline event", "\nDetails", "\nNo place",
             "\nNo place\nKhulna Division"}

blob(prefix, n, trailer) == prefix \o titleOfLength(n) \o trailer

Blobs == {blob(prefix, n, trailer) : prefix \in Prefixes, n \in TitleLengths, trailer \in Trailers}

InitExtract ==
  /\ eventsFile = File(<<>>)
  /\ rawDir = <<>>
  /\ NoRun
  /\ NoScraper /\ NoUI
  /\ NoVerification
  /\ pc \in {"extract", "extract (main.js)"}
  /\ str1 = "" /\ str2 = "" /\ similarity = null /\ normalized = <<>>
  /\ checked = null
  /\ rawContent \in Blobs
  /\ eventName = null

CallExtract ==
  /\ pc \in {"extract", "extract (main.js)"}
  /\ eventName' = IF pc = "extract" THEN extractEventNameFromRaw(rawContent)
                  ELSE mainExtractEventNameFromRaw(rawContent)
  /\ pc' = IF pc = "extract" THEN "returned" ELSE "returned (main.js)"
  /\ UNCHANGED <<disk, runs, killed, events, rawEventIndex, i, fixedCount, fixes, console,
                 call, rawContent, scraper, ui, verification>>

NextExtract == CallExtract

SpecExtract == InitExtract /\ [][NextExtract]_vars

(***************************************************************************)
(* The link scraper, run in the console of a page.  The page holds anchors *)
(* whose href contains /events/; it loads more of them as it is scrolled   *)
(* and as its "see more" buttons are clicked.                              *)
(***************************************************************************)
STOP_AFTER_IDLE_INTERVALS == 2

\* the links the script starts from
existingLinks == {"https://www.facebook.com/events/1/"}

\* the hrefs the page may come to show
LinkPool ==
  {"https://www.facebook.com/events/1/",
   "https://www.facebook.com/events/1/?ref=feed",
   "https://www.facebook.com/events/2/",
   "https://www.facebook.com/events/2/?ref=share",
   "https://www.facebook.com/events/3/?acontext=x"}

\* fullUrl.substring(0, fullUrl.indexOf("?")), or fullUrl without "?"
cleanUrl(fullUrl) ==
  IF includes(fullUrl, "?")
  THEN substring(fullUrl, 1,
         (CHOOSE k \in 1..Len(fullUrl) :
            charAt(fullUrl, k) = "?" /\ \A j \in 1..(k - 1) : charAt(fullUrl, j) # "?") - 1)
  ELSE fullUrl

InitScrape ==
  /\ eventsFile = File(<<>>)
  /\ rawDir = <<>>
  /\ NoRun
  /\ NoExtraction /\ NoUI
  /\ NoVerification
  /\ pc = "console"
  /\ str1 = "" /\ str2 = "" /\ similarity = null /\ normalized = <<>>
  /\ checked = null
  /\ links \in SUBSET LinkPool
  /\ uniqueCleanedLinks = {}
  /\ noNewLinksCounter = 0
  /\ scraperIntervalId = null
  /\ allEventLinks = null
  /\ scrapeLog = <<>>

node == <<disk, runs, killed, events, rawEventIndex, i, fixedCount, fixes, console, call,
          extraction, ui, verification>>

\* the script is run: the "see more" buttons are clicked (the page loads what
\* LoadContent adds), the set is created and the interval set
StartScraper ==
  /\ pc = "console"
  /\ uniqueCleanedLinks' = existingLinks
  /\ noNewLinksCounter' = 0
  /\ scraperIntervalId' = Some(1)
  /\ pc' = "scraping"
  /\ UNCHANGED <<node, links, allEventLinks, scrapeLog>>

\* the page loads content: one more anchor
LoadContent ==
  /\ pc = "scraping"
  /\ \E href \in LinkPool \ links : links' = links \cup {href}
  /\ UNCHANGED <<node, pc, uniqueCleanedLinks, noNewLinksCounter, scraperIntervalId,
                 allEventLinks, scrapeLog>>

\* the counter after an interval that found the given number of new links
idleCount(counter, newLinksFound) == IF newLinksFound > 0 THEN 0 ELSE counter + 1

\* scrapeAndScroll: the interval fires
ScrapeAndScroll ==
  /\ scraperIntervalId # null
  /\ LET cleaned       == {cleanUrl(href) : href \in links}
         newLinksFound == Cardinality(cleaned \ uniqueCleanedLinks)
         counter       == idleCount(noNewLinksCounter, newLinksFound)
         stop          == counter >= STOP_AFTER_IDLE_INTERVALS
     IN  /\ uniqueCleanedLinks' = uniqueCleanedLinks \cup cleaned
         /\ noNewLinksCounter' = counter
         /\ scraperIntervalId' = IF stop THEN null ELSE scraperIntervalId
         /\ allEventLinks' = IF stop THEN Some(uniqueCleanedLinks \cup cleaned)
                             ELSE allEventLinks
         /\ scrapeLog' = Append(scrapeLog, [newLinksFound |-> newLinksFound,
                                            scrolled      |-> ~stop])
         /\ pc' = IF stop THEN "stopped" ELSE pc
  /\ UNCHANGED <<node, links>>

NextScrape == StartScraper \/ LoadContent \/ ScrapeAndScroll

SpecScrape == InitScrape /\ [][NextScrape]_vars

(***************************************************************************)
(* The filter sidebar of the catalog page on a phone: the two functions    *)
(* bound to its controls, and the timers they set.                         *)
(***************************************************************************)
InitUI ==
  /\ eventsFile = File(<<>>)
  /\ rawDir = <<>>
  /\ NoRun
  /\ NoExtraction /\ NoScraper /\ NoUI
  /\ NoVerification
  /\ pc = "page"
  /\ str1 = "" /\ str2 = "" /\ similarity = null /\ normalized = <<>>
  /\ checked = null

offPage == <<disk, runs, pc, killed, events, rawEventIndex, i, fixedCount, fixes, console,
             call, extraction, scraper, verification>>

\* toggleMobileFilters()
ToggleMobileFilters ==
  /\ pc = "page"
  /\ hideTimers < MaxTimers /\ redrawTimers + opacityTimers < MaxTimers
  /\ mobileOpen' = ~mobileOpen
  /\ toggleActive' = ~toggleActive
  /\ IF ~mobileOpen
     THEN /\ bodyOverflow' = "hidden"
          /\ sidebarDisplay' = "block"
          /\ redrawTimers' = redrawTimers + 1
          /\ UNCHANGED hideTimers
     ELSE /\ bodyOverflow' = ""
          /\ hideTimers' = hideTimers + 1
          /\ UNCHANGED <<sidebarDisplay, redrawTimers>>
  /\ UNCHANGED <<offPage, sidebarOpacity, opacityTimers>>

\* closeMobileFilters()
CloseMobileFilters ==
  /\ pc = "page"
  /\ hideTimers < MaxTimers
  /\ mobileOpen' = FALSE
  /\ toggleActive' = FALSE
  /\ bodyOverflow' = ""
  /\ hideTimers' = hideTimers + 1
  /\ UNCHANGED <<offPage, sidebarDisplay, sidebarOpacity, redrawTimers, opacityTimers>>

\* a 300 ms timer that hides the sidebar whatever its class
HideTimerFires_unguarded ==
  /\ hideTimers > 0
  /\ hideTimers' = hideTimers - 1
  /\ sidebarDisplay' = "none"
  /\ UNCHANGED <<offPage, mobileOpen, toggleActive, sidebarOpacity, bodyOverflow,
                 redrawTimers, opacityTimers>>

\* a 300 ms timer fires: the sidebar is hidden unless it was opened again
HideTimerFires ==
  /\ hideTimers > 0
  /\ hideTimers' = hideTimers - 1
  /\ sidebarDisplay' = IF ~mobileOpen THEN "none" ELSE sidebarDisplay
  /\ UNCHANGED <<offPage, mobileOpen, toggleActive, sidebarOpacity, bodyOverflow,
                 redrawTimers, opacityTimers>>

\* a 0 ms timer fires: the redraw is forced and the 50 ms timer set
RedrawTimerFires ==
  /\ redrawTimers > 0
  /\ redrawTimers' = redrawTimers - 1
  /\ sidebarOpacity' = "0.99"
  /\ opacityTimers' = opacityTimers + 1
  /\ UNCHANGED <<offPage, mobileOpen, toggleActive, sidebarDisplay, bodyOverflow, hideTimers>>

\* a 50 ms timer fires
OpacityTimerFires ==
  /\ opacityTimers > 0
  /\ opacityTimers' = opacityTimers - 1
  /\ sidebarOpacity' = "1"
  /\ UNCHANGED <<offPage, mobileOpen, toggleActive, sidebarDisplay, bodyOverflow,
                 hideTimers, redrawTimers>>

NextUI ==
  \/ ToggleMobileFilters
  \/ CloseMobileFilters
  \/ HideTimerFires
  \/ RedrawTimerFires
  \/ OpacityTimerFires

SpecUI == InitUI /\ [][NextUI]_vars

(***************************************************************************)
(* verifyFacebookLinks of page/js/main.js, run on the catalog the fixer    *)
(* leaves.  A finding keeps the fields that identify it; the dates and the *)
(* formatted similarity, which are only printed, are left out.             *)
(***************************************************************************)
\* extractEventIdFromFbLink(event.fbLink)
extractEventIdFromFbLink(event) ==
  IF ~linkIsTruthy(event) \/ ~linkIsString(event) THEN null
  ELSE matchFacebookId(event.fbLink)

\* readRawEventFile(eventId): null when raw_events has no such file
readRawEventFile(eventId, listing) ==
  IF \E k \in 1..Len(listing) : listing[k] = eventId \o ".txt"
  THEN Some(readFileSync(eventId \o ".txt"))
  ELSE null

\* errors.push({ index, event, issue })
errorFinding(event, index, issue) ==
  [kind |-> "error", finding |-> [index |-> index, event |-> event.name, issue |-> issue]]

\* the classification by the similarity of the two normalized names
classify(event, index, eventId, rawEventName, score) ==
  IF Less(score, Frac(6, 10))
  THEN [kind |-> "mismatch",
        finding |-> [index |-> index, jsonEvent |-> event.name,
                     rawEvent |-> rawEventName, eventId |-> eventId]]
  ELSE [kind |-> "match",
        finding |-> [index |-> index, event |-> event.name, eventId |-> eventId]]

\* the iteration from the name extracted from the raw content on
verifyName(event, index, eventId, rawEventName) ==
  IF rawEventName = null \/ rawEventName = Some("")
  THEN errorFinding(event, index, "Could not extract event name from raw content")
  ELSE classify(event, index, eventId, rawEventName[1],
                calculateSimilarity(mainNormalizeEventName(event.name),
                                    mainNormalizeEventName(rawEventName[1])))

\* the iteration from the raw content on
verifyContent(event, index, eventId, content) ==
  IF content = null \/ content = Some("")
  THEN errorFinding(event, index, "Raw event file not found")
  ELSE IF \/ includes(content[1], "You must log in to continue")
          \/ includes(content[1], "Log in to Facebook")
  THEN errorFinding(event, index, "Facebook event requires login (private or deleted)")
  ELSE verifyName(event, index, eventId, mainExtractEventNameFromRaw(content[1]))

\* the iteration from the event id on
verifyId(event, index, eventId, listing) ==
  IF eventId = null
  THEN errorFinding(event, index, "Invalid or missing Facebook link")
  ELSE verifyContent(event, index, eventId[1], readRawEventFile(eventId[1], listing))

\* one iteration of the loop of verifyFacebookLinks, for events[index]
verifyEvent(event, index, listing) ==
  verifyId(event, index, extractEventIdFromFbLink(event), listing)

\* the findings of a kind, in the order of the loop
findingsOf(all, kind) ==
  LET chosen == SelectSeq(all, LAMBDA f : f.kind = kind)
  IN  [k \in 1..Len(chosen) |-> chosen[k].finding]

\* return { mismatches, matches, errors }
verifierReport(all) ==
  [mismatches |-> findingsOf(all, "mismatch"),
   matches    |-> findingsOf(all, "match"),
   errors     |-> findingsOf(all, "error")]

verifyFacebookLinks(evts, listing) ==
  verifierReport([k \in 1..Len(evts) |-> verifyEvent(evts[k], k - 1, listing)])

\* event.fbLink of the loop throws a TypeError: an element is null
verifyThrows(evts) == \E k \in 1..Len(evts) : evts[k] = null

(***************************************************************************)
(* The fixer and then the verifier, on catalogs that hold, besides sound   *)
(* records, a raw title with a sponsor, a link of another host, a null     *)
(* element and links that are numbers.                                     *)
(***************************************************************************)
VerifyPool ==
  { [name |-> "Khulna Fog",       fbLink |-> "https://www.facebook.com/events/5000000001/"],
    [name |-> "Khulna Run | 10k", fbLink |-> "https://www.facebook.com/events/42"],
    [name |-> "Khulna Run | 10k", fbLink |-> "https://www.facebook.com/events/91"],
    [name |-> "Khulna Fog",       fbLink |-> "https://fb.me/events/5000000001"],
    [name |-> "Khulna Jog",       fbLink |-> "42", typeofFbLink |-> "number"],
    [name |-> "Sylhet Trail 2026", fbLink |-> "0", typeofFbLink |-> "number"],
    null }

VerifyCatalogs == UNION {[1..n -> VerifyPool] : n \in 0..MaxEvents}

VerifyListings ==
  { <<FileKhulnaRun, FileSylhet, FileSponsored>>,
    <<FileSylhet, FileKhulnaFun>> }

InitVerify ==
  /\ eventsFile \in {File(c) : c \in VerifyCatalogs}
  /\ rawDir \in VerifyListings
  /\ NoRun
  /\ NoBrowser
  /\ NoVerification
  /\ pc = "idle"
  /\ str1 = "" /\ str2 = "" /\ similarity = null /\ normalized = <<>>
  /\ checked = null

\* node verify_fblinks.js, when no script runs: parseEventsJson and the loop
VerifyLinks ==
  /\ pc \in {"idle", "done"} /\ ~killed /\ eventsFile.complete
  /\ ~verifyThrows(eventsFile.data)
  /\ verification' = Some(verifyFacebookLinks(eventsFile.data, rawDir))
  /\ pc' = "verified"
  /\ UNCHANGED <<disk, runs, killed, events, rawEventIndex, i, fixedCount, fixes, console,
                 call, browser>>

\* the loop throws: the catch of main prints 'Fatal error' and the script
\* ends with process.exit(1), no report printed
VerifyLinksThrows ==
  /\ pc \in {"idle", "done"} /\ ~killed /\ eventsFile.complete
  /\ verifyThrows(eventsFile.data)
  /\ pc' = "crashed"
  /\ UNCHANGED <<disk, runs, killed, events, rawEventIndex, i, fixedCount, fixes, console,
                 call, browser, verification>>

NextVerify ==
  \/ StartFix
  \/ FixEvent
  \/ FixEventThrows
  \/ EndLoop
  \/ Backup
  \/ OpenEvents
  \/ WriteEvents
  \/ OpenReport
  \/ WriteReport
  \/ VerifyLinks
  \/ VerifyLinksThrows

SpecVerify == InitVerify /\ [][NextVerify]_vars

(***************************************************************************)
(* The properties of the fix scripts.                                      *)
(***************************************************************************)

\* the id the fbLink of a record resolves to, null when it has none
currentIdOf(event) ==
  IF hasLink(event) /\ event.fbLink # "" THEN matchEventId(event.fbLink) ELSE null

\* the raw event a record points at in the index of the run, null when none
currentRawOf(event) ==
  IF currentIdOf(event) = null THEN null
  ELSE getProperty(rawEventIndex, currentIdOf(event)[1])

\* how similar the name of a record is to the name of a raw event
scoreOf(event, rawEvent) ==
  calculateSimilarity(normalizeEventName(event.name), rawEvent.normalizedName)

\* a step of the loop of fixFacebookLinks
IsFixStep ==
  /\ pc = "loop" /\ script = "fix" /\ i <= Len(events)
  /\ i' = i + 1

\* the record of the step points at a raw event its name scores below 0.7 with
BelowThreshold(event) ==
  /\ currentRawOf(event) # null
  /\ Less(scoreOf(event, currentRawOf(event)[1]), Frac(7, 10))

\* the record of the step points at a raw event its name scores 0.7 or more with
Accepted(event) ==
  /\ currentRawOf(event) # null
  /\ ~Less(scoreOf(event, currentRawOf(event)[1]), Frac(7, 10))

\* C1: when fixFacebookLinks handles a record whose reference resolves to a
\* raw event and scores below 0.7, then, if findCorrectEventId returns a
\* candidate whose id differs from the current one, exactly one entry is
\* appended to the corrections (old id, new id, the candidate's similarity),
\* the fbLink of that record now points at the new id and fixedCount grows
\* by one; otherwise nothing is recorded and the catalog is left as it was.
C1_CorrectedIffCandidateDiffers ==
  [][ (IsFixStep /\ BelowThreshold(events[i])) =>
        LET event     == events[i]
            currentId == currentIdOf(event)[1]
            candidate == findCorrectEventId(event.name, rawEventIndex)
        IN  IF candidate # null /\ candidate[1].eventId # currentId
            THEN /\ Len(fixes') = Len(fixes) + 1
                 /\ SubSeq(fixes', 1, Len(fixes)) = fixes
                 /\ fixes'[Len(fixes')].eventIndex = i
                 /\ fixes'[Len(fixes')].oldEventId = currentId
                 /\ fixes'[Len(fixes')].newEventId = candidate[1].eventId
                 /\ fixes'[Len(fixes')].similarity = candidate[1].similarity
                 /\ currentIdOf(events'[i]) = Some(candidate[1].eventId)
                 /\ \A k \in 1..Len(events) : k # i => events'[k] = events[k]
                 /\ Len(events') = Len(events)
                 /\ fixedCount' = fixedCount + 1
            ELSE /\ fixes' = fixes
                 /\ events' = events
                 /\ fixedCount' = fixedCount ]_vars

\* the first record was corrected and the second, which scores below 0.7 with
\* its raw event too, had no candidate and was left alone
C1_Witness ==
  /\ pc = "loop" /\ script = "fix" /\ i = 3
  /\ Len(fixes) = 1 /\ fixes[1].eventIndex = 1
  /\ currentIdOf(events[1]) = Some(fixes[1].newEventId)
  /\ BelowThreshold(events[2])
  /\ findCorrectEventId(events[2].name, rawEventIndex) = null

\* C2: a record whose name scores 0.7 or more with the raw event it points
\* at, exactly 0.7 included, is accepted: the step records nothing and leaves
\* the catalog as it was.
C2_AcceptedAtThreshold ==
  [][ (IsFixStep /\ Accepted(events[i])) =>
        /\ fixes' = fixes
        /\ events' = events
        /\ fixedCount' = fixedCount ]_vars

\* a record scoring exactly 0.7 with its raw event was handled and left
\* alone, although another raw event scores higher
C2_Witness ==
  /\ pc = "loop" /\ script = "fix" /\ i = 2
  /\ currentRawOf(events[1]) # null
  /\ scoreOf(events[1], currentRawOf(events[1])[1]) = Frac(7, 10)
  /\ \E k \in 1..Len(rawEventIndex) :
       Less(Frac(7, 10), scoreOf(events[1], rawEventIndex[k]))
  /\ fixes = <<>>
  /\ events = eventsFile.data

\* the similarities of a normalized name to the raw events of a list, in order
RECURSIVE scoresOf(_, _)
scoresOf(target, rawEvents) ==
  IF rawEvents = <<>> THEN <<>>
  ELSE <<calculateSimilarity(target, Head(rawEvents).normalizedName)>>
         \o scoresOf(target, Tail(rawEvents))

\* what findCorrectEventId has to return for a name, said without the loop
IsBestCandidate(result, event) ==
  LET rawEvents == entries(rawEventIndex)
      scores    == scoresOf(normalizeEventName(event.name), rawEvents)
      above     == {k \in 1..Len(rawEvents) : Less(Frac(7, 10), scores[k])}
  IN  IF above = {} THEN result = null
      ELSE /\ result # null
           /\ \E k \in above :
                /\ \A j \in above : ~Less(scores[k], scores[j])
                /\ \A j \in above : j < k => Less(scores[j], scores[k])
                /\ result[1].eventId = rawEvents[k].eventId
                /\ result[1].eventName = rawEvents[k].eventName
                /\ result[1].similarity = scores[k]

\* C3: for the record the loop of a run has come to, whichever it is,
\* findCorrectEventId returns the raw event of the highest similarity among
\* those scoring strictly above 0.7, the first one in the iteration order of
\* the index when several share that score, and null when none scores above
\* 0.7 (one scoring exactly 0.7 is not returned).
C3_BestAboveFloor ==
  (pc = "loop" /\ script = "fix" /\ ~killed /\ i <= Len(events)) =>
    IsBestCandidate(findCorrectEventId(events[i].name, rawEventIndex), events[i])

\* two raw events tie at 0.9 and the first of the iteration order was taken;
\* for the second record the best raw event scores exactly 0.7 and none is
\* returned
C3_Witness ==
  /\ pc = "loop" /\ script = "fix" /\ i = 3
  /\ Len(fixes) = 1
  /\ fixes[1].similarity = Frac(9, 10)
  /\ LET rawEvents == entries(rawEventIndex)
     IN  \E j, k \in 1..Len(rawEvents) :
           /\ j < k
           /\ rawEvents[j].eventId = fixes[1].newEventId
           /\ scoreOf(events[1], rawEvents[k]) = Frac(9, 10)
  /\ \E k \in 1..Len(rawEventIndex) : scoreOf(events[2], rawEventIndex[k]) = Frac(7, 10)
  /\ findCorrectEventId(events[2].name, rawEventIndex) = null

\* C4: a run of fixFacebookLinks that follows completed runs of it, on the
\* catalog they left and the same raw events, makes no correction
\* (fixedCount = 0, no entry) and leaves the catalog, in memory and on disk,
\* as it found it.
C4_SecondRunFixesNothing ==
  (Len(runs) >= 2 /\ script = "fix") =>
    /\ fixedCount = 0
    /\ fixes = <<>>
    /\ eventsFile = File(events)
    /\ pc \in {"loop", "done"}

\* a second run has finished after a first run that corrected the catalog
C4_Witness ==
  /\ runs = <<"fix", "fix">> /\ pc = "done"
  /\ Len(backups) = 1
  /\ backups[1] # eventsFile
  /\ fixReport # null /\ fixReport[1].complete /\ fixReport[1].data # <<>>

\* the orders readdirSync can list the files of a directory in
Reorderings(listing) ==
  {[k \in 1..Len(listing) |-> listing[p[k]]] :
     p \in {q \in [1..Len(listing) -> 1..Len(listing)] :
              \A a, b \in 1..Len(listing) : a # b => q[a] # q[b]}}

\* C5: the findings of a run (what becomes of every record and the entries
\* recorded) are the same whatever the order the raw files are listed, and
\* so inserted in the index, in.
C5_OrderIndependent ==
  (pc = "loop" /\ script = "fix" /\ i = 1 /\ ~killed) =>
    \A listing \in Reorderings(rawDir) :
      \A k \in 1..Len(events) :
        fixEvent(events[k], k, buildRawEventIndex(listing))
          = fixEvent(events[k], k, rawEventIndex)

\* the catalog the run read: what is on disk until the run opens events.json
\* for writing, and what the backup of the run holds from then on
PriorCatalog ==
  IF pc \in {"loop", "backup", "open events"} \/ fixedCount = 0
  THEN eventsFile.data
  ELSE backups[Len(backups)].data

\* the events of the run with every recorded correction undone
Restored ==
  [k \in 1..Len(events) |->
     IF \E n \in 1..Len(fixes) : fixes[n].eventIndex = k
     THEN LET fix == fixes[CHOOSE n \in 1..Len(fixes) : fixes[n].eventIndex = k]
          IN  [f \in DOMAIN events[k] \cup {"fbLink"} |->
                 IF f = "fbLink" THEN fix.oldLink ELSE events[k][f]]
     ELSE events[k]]

\* C6: a step of either fix script that overwrites events.json is taken with
\* a backup in place whose content is that of events.json before the step,
\* which is the catalog the run read, before any of its corrections.
C6_BackupBeforeOverwrite ==
  [][ (eventsFile.complete /\ eventsFile' # eventsFile) =>
        /\ backups # <<>>
        /\ backups[Len(backups)] = eventsFile
        /\ backups[Len(backups)].data = Restored
        /\ backups' = backups ]_vars

\* the manual script, run after the fix script, is overwriting events.json:
\* each run has made its backup, and the two differ
C6_Witness ==
  /\ runs = <<"fix", "manual">> /\ pc = "write events"
  /\ Len(backups) = 2
  /\ backups[1] # backups[2]
  /\ backups[2].data = Restored
  /\ events # Restored

\* C7: when the process is interrupted, events.json holds the complete
\* catalog the run read or the complete corrected catalog.
C7_AtomicRewrite ==
  killed => (eventsFile = File(PriorCatalog) \/ eventsFile = File(events))

\* C8: as long as a run of fixFacebookLinks is not interrupted, its
\* corrections number fixedCount, are in catalog
\* order with one entry per record at most, every record whose fbLink
\* changed has an entry and no other has; an entry carries the ids and links
\* before and after, the names of the raw events before and after and the
\* similarity of the new one; and the report the run writes is that list.
C8_AuditLog ==
  (runs # <<>> /\ script = "fix" /\ ~killed) =>
    /\ Len(fixes) = fixedCount
    /\ \A n \in 1..(Len(fixes) - 1) : fixes[n].eventIndex < fixes[n + 1].eventIndex
    /\ \A k \in 1..Len(events) :
         (events[k] # PriorCatalog[k]) <=> (\E n \in 1..Len(fixes) : fixes[n].eventIndex = k)
    /\ \A n \in 1..Len(fixes) :
         LET fix    == fixes[n]
             before == PriorCatalog[fix.eventIndex]
             after  == events[fix.eventIndex]
         IN  /\ fix.eventIndex < i
             /\ fix.eventName = after.name
             /\ fix.oldLink = before.fbLink /\ fix.newLink = after.fbLink
             /\ currentIdOf(before) = Some(fix.oldEventId)
             /\ currentIdOf(after) = Some(fix.newEventId)
             /\ fix.oldEventId # fix.newEventId
             /\ fix.oldEventName = getProperty(rawEventIndex, fix.oldEventId)[1].eventName
             /\ fix.newEventName = getProperty(rawEventIndex, fix.newEventId)[1].eventName
             /\ fix.similarity = scoreOf(after, getProperty(rawEventIndex, fix.newEventId)[1])
    /\ (pc = "done" /\ fixedCount > 0) => fixReport = Some(File(fixes))

\* a run that corrected two records has written its report
C8_Witness ==
  /\ runs = <<"fix">> /\ pc = "done"
  /\ fixedCount = 2
  /\ fixReport = Some(File(fixes))
  /\ eventsFile = File(events)

\* no replacement passes the floor for a record that scores below 0.7 with
\* the raw event it points at
NoReplacement(event) ==
  /\ BelowThreshold(event)
  /\ LET candidate == findCorrectEventId(event.name, rawEventIndex)
     IN  candidate = null \/ candidate[1].eventId = currentIdOf(event)[1]

\* C9: when a run of fixFacebookLinks is over, the audit log holds an entry
\* for every record for which no replacement passed the floor.
C9_NoMatchRecorded ==
  (pc = "done" /\ runs # <<>> /\ script = "fix") =>
    \A k \in 1..Len(events) :
      NoReplacement(events[k]) =>
        /\ fixReport # null
        /\ \E n \in 1..Len(fixReport[1].data) : fixReport[1].data[n].eventIndex = k

\* C10: calculateSimilarity returns 1 for two empty strings and 0 when one
\* string only is empty.
C10_EmptyStrings ==
  similarity # null =>
    /\ (str1 = "" /\ str2 = "") => similarity[1] = One
    /\ ((str1 = "") # (str2 = "")) => similarity[1] = Zero

(***************************************************************************)
(* The properties of calculateSimilarity.                                  *)
(***************************************************************************)

\* C11, as the contract words it: calculateSimilarity returns 1 for
\* identical strings and a value strictly between 0 and 1 for any others.
C11_StrictlyBetween ==
  similarity # null =>
    IF str1 = str2 THEN similarity[1] = One
    ELSE Less(Zero, similarity[1]) /\ Less(similarity[1], One)

\* C11: calculateSimilarity returns 0 when either string is empty (both
\* empty included), 1 for identical strings that are not empty, and for any
\* other pair a value that is at least 0, 0 included, and strictly less
\* than 1.
C11_Range ==
  similarity # null =>
    IF str1 = "" \/ str2 = "" THEN similarity[1] = Zero
    ELSE IF str1 = str2 THEN similarity[1] = One
    ELSE ~Less(similarity[1], Zero) /\ Less(similarity[1], One)

\* two different strings, neither empty, came out at exactly 0
C11_Witness ==
  /\ pc = "returned"
  /\ str1 # "" /\ str2 # "" /\ str1 # str2
  /\ similarity = Some(Zero)

\* the classic edit distance: the least number of single-character
\* insertions, deletions and substitutions that turn a into b
RECURSIVE editDistance(_, _)
editDistance(a, b) ==
  IF a = "" THEN Len(b)
  ELSE IF b = "" THEN Len(a)
  ELSE LET substitute == editDistance(Tail(a), Tail(b))
                           + (IF Head(a) = Head(b) THEN 0 ELSE 1)
           delete     == editDistance(Tail(a), b) + 1
           insert     == editDistance(a, Tail(b)) + 1
       IN  IF substitute <= delete /\ substitute <= insert THEN substitute
           ELSE IF delete <= insert THEN delete ELSE insert

\* C12: for two strings that are not empty, calculateSimilarity returns
\* (maxLen - d) / maxLen, maxLen the length of the longer one and d the
\* classic edit distance between them; "kitten" and "sitting" are 3 edits
\* apart over a length of 7.
C12_EditDistanceFormula ==
  (similarity # null /\ str1 # "" /\ str2 # "") =>
    LET maxLen == IF Len(str1) > Len(str2) THEN Len(str1) ELSE Len(str2)
    IN  /\ similarity[1].num * maxLen
             = (maxLen - editDistance(str1, str2)) * similarity[1].den
        /\ (str1 = "kitten" /\ str2 = "sitting") => similarity[1] = Frac(7 - 3, 7)

\* the similarity of "kitten" and "sitting" was computed
C12_Witness ==
  /\ pc = "returned"
  /\ str1 = "kitten" /\ str2 = "sitting"
  /\ similarity = Some(Frac(4, 7))

\* C13: calculateSimilarity(a, b) is what calculateSimilarity(b, a) is, for
\* all strings, those of equal length and the empty one included.
C13_Symmetric ==
  similarity # null => similarity[1] = calculateSimilarity(str2, str1)

\* two different strings of the same length came out strictly between 0 and 1
C13_Witness ==
  /\ pc = "returned"
  /\ Len(str1) = Len(str2) /\ str1 # str2
  /\ Less(Zero, similarity[1]) /\ Less(similarity[1], One)

(***************************************************************************)
(* The properties of normalizeEventName.                                   *)
(***************************************************************************)

\* C14: normalizing a normalized name changes nothing, with the
\* normalizeEventName of either script.
C14_Idempotent ==
  Len(normalized) >= 2 => normalized[2] = normalized[1]

\* a name with every maximal run of exactly four digits masked
RECURSIVE maskYears(_)
maskYears(s) ==
  IF s = "" THEN ""
  ELSE LET d == runLength(s, Digits, 1)
       IN  IF d = 0 THEN charAt(s, 1) \o maskYears(from(s, 2))
           ELSE (IF d = 4 THEN "0000" ELSE substring(s, 1, d)) \o maskYears(from(s, d + 1))

\* two names differ in letter case, in the length of whitespace runs (leading
\* and trailing ones included) and in the digits of 4-digit years at most
differOnlyInCaseSpaceYear(a, b) ==
  maskYears(trim(collapseSpaces(toLowerCase(a))))
    = maskYears(trim(collapseSpaces(toLowerCase(b))))

\* C15: two names that differ only in letter case, in the length of
\* whitespace runs or in the digits of a 4-digit year have the same
\* normalized name under the normalizeEventName of the fixer.
C15_Insensitive ==
  (pc = "normalize" /\ normalized # <<>> /\ differOnlyInCaseSpaceYear(str1, str2)) =>
    normalized[1][1] = normalized[1][2]

(***************************************************************************)
(* More properties of the loop of fixFacebookLinks.                        *)
(***************************************************************************)

\* C16: when the normalized name of a record is exactly the normalized name
\* of the raw event it points at, their similarity is 1 and the step records
\* no correction and leaves the catalog as it was.
C16_EqualNamesAccepted ==
  [][ ( /\ IsFixStep
        /\ currentRawOf(events[i]) # null
        /\ normalizeEventName(events[i].name) = currentRawOf(events[i])[1].normalizedName ) =>
        /\ scoreOf(events[i], currentRawOf(events[i])[1]) = One
        /\ fixes' = fixes
        /\ events' = events ]_vars

\* the reference of a record resolves to an id no raw event of the index has
MissingReference(event) ==
  /\ currentIdOf(event) # null
  /\ \A k \in 1..Len(rawEventIndex) : rawEventIndex[k].eventId # currentIdOf(event)[1]

\* C20: for a record whose reference id is not in the index, the step
\* prints the raw-file-not-found line for that record, records no
\* correction, leaves the catalog as it was and goes on to the next record.
C20_MissingReferenceSkipped ==
  [][ (IsFixStep /\ MissingReference(events[i])) =>
        /\ console' = Append(console, [eventIndex |-> i, message |-> "raw file not found"])
        /\ events' = events
        /\ fixes' = fixes
        /\ fixedCount' = fixedCount
        /\ pc' = "loop" ]_vars

\* the first record was skipped for its missing raw file and the second one
\* was corrected after it
C20_Witness ==
  /\ pc = "loop" /\ script = "fix" /\ i = 3
  /\ console[1] = [eventIndex |-> 1, message |-> "raw file not found"]
  /\ events[1] = eventsFile.data[1]
  /\ Len(fixes) = 1 /\ fixes[1].eventIndex = 2

(***************************************************************************)
(* The properties of the consistency checker.                              *)
(***************************************************************************)

\* analyze has returned: the checker ran without a fatal error
Analyzed == checked # null /\ ~checked[1].fatal

\* the elements of a sequence
Range(seq) == {seq[k] : k \in 1..Len(seq)}

\* no element of the sequence occurs twice
NoRepeats(seq) == \A a, b \in 1..Len(seq) : a # b => seq[a] # seq[b]

\* the ids of the raw corpus: the names <digits>.txt of the directory
rawIdSet ==
  {eventIdOfFile(rawDir[k])[1] : k \in {j \in 1..Len(rawDir) : eventIdOfFile(rawDir[j]) # null}}

\* the records of the catalog whose fbLink holds the id
Referencing(id) ==
  {k \in 1..Len(eventsFile.data) :
     /\ hasLink(eventsFile.data[k])
     /\ matchFacebookId(eventsFile.data[k].fbLink) = Some(id)}

\* the ids the records of the catalog reference
referencedIds ==
  {matchFacebookId(eventsFile.data[k].fbLink)[1] :
     k \in {j \in 1..Len(eventsFile.data) :
              /\ hasLink(eventsFile.data[j])
              /\ matchFacebookId(eventsFile.data[j].fbLink) # null}}

\* C17: missingInEventsJson is exactly the set of raw ids no record
\* references, missingRawFiles exactly the set of referenced ids without a
\* raw file; the two are disjoint and neither lists an id twice.
C17_MissingSets ==
  Analyzed =>
    LET res == checked[1].result[1]
    IN  /\ Range(res.missingInEventsJson) = rawIdSet \ referencedIds
        /\ Range(res.missingRawFiles) = referencedIds \ rawIdSet
        /\ Range(res.missingInEventsJson) \cap Range(res.missingRawFiles) = {}
        /\ NoRepeats(res.missingInEventsJson)
        /\ NoRepeats(res.missingRawFiles)

\* a run that found raw files no record references and a reference without
\* a raw file, next to an id that both sides hold
C17_Witness ==
  /\ Analyzed
  /\ Len(checked[1].result[1].missingInEventsJson) >= 2
  /\ Len(checked[1].result[1].missingRawFiles) >= 1
  /\ rawIdSet \cap referencedIds # {}

\* C18: duplicates holds exactly one entry for each id more than one record
\* references, its count is the number of those records, and an id one
\* record references has no entry.
C18_Duplicates ==
  Analyzed =>
    LET dups == checked[1].result[1].duplicates
    IN  /\ \A k \in 1..Len(dups) :
             /\ Cardinality(Referencing(dups[k].id)) > 1
             /\ dups[k].count = Cardinality(Referencing(dups[k].id))
        /\ \A id \in referencedIds :
             Cardinality(Referencing(id)) > 1 =>
               Cardinality({k \in 1..Len(dups) : dups[k].id = id}) = 1

\* two records reference one id, and the run reported it once with count 2
C18_Witness ==
  /\ Analyzed
  /\ checked[1].result[1].duplicates = <<[id |-> "42", count |-> 2]>>
  /\ Cardinality(Referencing("42")) = 2

\* the three lists of the result are empty
Consistent ==
  /\ checked[1].result[1].missingInEventsJson = <<>>
  /\ checked[1].result[1].missingRawFiles = <<>>
  /\ checked[1].result[1].duplicates = <<>>

\* C19: the run reports consistency (mismatch false, RESULT: OK as the last
\* line of the human output, exit status 0) exactly when the three lists are
\* empty; a discrepancy or a fatal error gives a non-zero exit status.
C19_ConsistentIffEmpty ==
  /\ (checked # null /\ checked[1].fatal) => checked[1].exitStatus # 0
  /\ Analyzed =>
       /\ checked[1].result[1].summary.mismatch = ~Consistent
       /\ (checked[1].exitStatus = 0) = Consistent
       /\ checked[1].exitStatus \in {0, 1}
       /\ ~checked[1].jsonOutput =>
            (checked[1].stdout = Some("RESULT: OK")) = Consistent

\* a run on a catalog whose two records reference the two raw files printed
\* RESULT: OK and exited with 0
C19_Witness ==
  /\ Analyzed
  /\ Consistent
  /\ Len(eventsFile.data) = 2
  /\ ~checked[1].jsonOutput
  /\ checked[1].stdout = Some("RESULT: OK")
  /\ checked[1].exitStatus = 0

(***************************************************************************)
(* The properties of the index and of the extractor.                       *)
(***************************************************************************)

\* the blob holds one of the two markers of the login wall
hasLoginMarker(content) ==
  includes(content, "You must log in to continue") \/ includes(content, "Log in to Facebook")

\* why a raw file gets no entry in the index: "structural" (the read fails),
\* "access-denial" (the blob is the login wall), "semantic" (no name found
\* in a blob that was read and is not the login wall), or "none"
failureKind(fileName) ==
  IF throwsOnRead(fileName) THEN "structural"
  ELSE IF hasLoginMarker(readFileSync(fileName)) THEN "access-denial"
  ELSE IF extractEventNameFromRaw(readFileSync(fileName)) = null THEN "semantic"
  ELSE "none"

\* the name of the raw file of an id
fileOf(eventId) == eventId \o ".txt"

\* C21: two raw files that fail for different reasons (read error, login
\* wall, no name found) are reported with different lines.
C21_FailuresDistinct ==
  pc = "indexed" =>
    \A a, b \in 1..Len(console) :
      LET ka == failureKind(fileOf(console[a].eventId))
          kb == failureKind(fileOf(console[b].eventId))
      IN  (ka # "none" /\ kb # "none" /\ ka # kb) => console[a].message # console[b].message

\* C23: a raw file whose blob holds a login-wall marker has no entry in the
\* index of a run, and findCorrectEventId never returns its id for the record
\* the loop has come to, whatever else the blob holds.
C23_LoginWallNeverCandidate ==
  (pc = "loop" /\ script = "fix" /\ ~killed) =>
    \A k \in 1..Len(rawDir) :
      (eventIdOfFile(rawDir[k]) # null /\ hasLoginMarker(readFileSync(rawDir[k]))) =>
        /\ getProperty(rawEventIndex, eventIdOfFile(rawDir[k])[1]) = null
        /\ i <= Len(events) =>
             LET candidate == findCorrectEventId(events[i].name, rawEventIndex)
             IN  candidate = null \/ candidate[1].eventId # eventIdOfFile(rawDir[k])[1]

\* the directory holds a login-wall blob with a title and a location line
\* under it, and a record of that very name was corrected to another raw file
C23_Witness ==
  /\ pc = "loop" /\ script = "fix" /\ i = 2
  /\ \E k \in 1..Len(rawDir) :
       /\ rawDir[k] = FileLoginWall
       /\ hasLoginMarker(readFileSync(rawDir[k]))
       /\ normalizeEventName(events[1].name) = normalizeEventName("Khulna Run 10K")
  /\ Len(fixes) = 1
  /\ fixes[1].newEventId # eventIdOfFile(FileLoginWall)[1]

\* the extractor of either script has returned
Extracted == pc \in {"returned", "returned (main.js)"}

\* the lines under the title hold what confirms it as a title: a location
\* line right under it, or (fix script) within three lines of it
confirms(trailer) ==
  \/ trailer \in {"\nKhulna, Bangladesh", "\nOnline event", "\nDetails"}
  \/ (pc = "returned" /\ trailer = "\nNo place\nKhulna Division")

\* C24: a line of 10 to 199 characters that passes the exclusions and is
\* confirmed by the lines under it is returned as the name, and no name of
\* fewer than 10 or of 200 or more characters is ever returned.
C24_TitleLength ==
  Extracted =>
    /\ \A prefix \in Prefixes, n \in TitleLengths, trailer \in Trailers :
         (rawContent = blob(prefix, n, trailer) /\ n >= 10 /\ n < 200 /\ confirms(trailer)) =>
           eventName = Some(titleOfLength(n))
    /\ eventName # null => (Len(eventName[1]) >= 10 /\ Len(eventName[1]) < 200)

(***************************************************************************)
(* The properties of the scraper.                                          *)
(***************************************************************************)

\* the intervals at the end of the log that found no new link
RECURSIVE idleRun(_)
idleRun(log) ==
  IF log = <<>> \/ log[Len(log)].newLinksFound > 0 THEN 0
  ELSE 1 + idleRun(SubSeq(log, 1, Len(log) - 1))

\* C25: the scraper stops (interval cleared, links published, no scroll)
\* once 5 consecutive intervals found no new link and not earlier, and an
\* interval that finds a new link resets the idle counter.
C25_StopsAfterFiveIdle ==
  /\ scraperIntervalId # null => noNewLinksCounter = idleRun(scrapeLog)
  /\ (pc = "scraping" /\ idleRun(scrapeLog) < 5) =>
       (scraperIntervalId # null /\ allEventLinks = null)
  /\ pc = "stopped" =>
       /\ scraperIntervalId = null
       /\ allEventLinks = Some(uniqueCleanedLinks)
       /\ idleRun(scrapeLog) = 5
       /\ ~scrapeLog[Len(scrapeLog)].scrolled

(***************************************************************************)
(* The properties of the catalog page.                                     *)
(***************************************************************************)

\* C30: whatever the interleaving of the calls and of the timers, the
\* sidebar is never hidden while it carries mobile-open, and the scrolling
\* of the page is locked exactly when it carries it.
C30_SidebarConsistent ==
  /\ ~(mobileOpen /\ sidebarDisplay = "none")
  /\ (bodyOverflow = "hidden") = mobileOpen

\* the sidebar was closed and opened again before the timers of the closings
\* fired; it is shown, and the page locked
C30_Witness ==
  /\ mobileOpen
  /\ hideTimers = 2
  /\ sidebarDisplay = "block"
  /\ bodyOverflow = "hidden"

(***************************************************************************)
(* More properties of the fix scripts.                                     *)
(***************************************************************************)

\* two records that differ in nothing but the value of fbLink
sameButLink(before, after) ==
  /\ DOMAIN after = DOMAIN before
  /\ \A f \in DOMAIN before \ {"fbLink"} : after[f] = before[f]

\* C26: a step of the loop of fixFacebookLinks changes nothing but the
\* fbLink of the record a correction is recorded for: the number and order
\* of the records, their other fields, the fbLink of every record no
\* correction is recorded for, and the index stay as they were.
C26_OnlyLinkChanges ==
  [][ IsFixStep =>
        /\ rawEventIndex' = rawEventIndex
        /\ Len(events') = Len(events)
        /\ \A k \in 1..Len(events) : k # i => events'[k] = events[k]
        /\ IF Len(fixes') > Len(fixes)
           THEN sameButLink(events[i], events'[i])
           ELSE events'[i] = events[i] ]_vars

\* the record that has a date was corrected, and holds its date still, after
\* another record was left alone
C26_Witness ==
  /\ pc = "loop" /\ script = "fix" /\ i = 3
  /\ Len(fixes) = 1 /\ fixes[1].eventIndex = 2
  /\ events[1] = eventsFile.data[1]
  /\ "date" \in DOMAIN events[2]
  /\ events[2].date = eventsFile.data[2].date
  /\ events[2].fbLink # eventsFile.data[2].fbLink

\* no reference id is shared by two records of the catalog
NoSharedReference(catalog) ==
  \A a, b \in 1..Len(catalog) :
    (a # b /\ currentIdOf(catalog[a]) # null) => currentIdOf(catalog[a]) # currentIdOf(catalog[b])

\* C27: a run of fixFacebookLinks on a catalog in which no reference id is
\* shared by two records never holds a catalog in which one is.
C27_NoDuplicateIntroduced ==
  (runs # <<>> /\ script = "fix" /\ ~killed /\ pc \in {"loop", "backup", "open events"}) =>
    (NoSharedReference(PriorCatalog) => NoSharedReference(events))

\* C28: when the loop searches a replacement for a record (its reference
\* resolves and scores below 0.7), a candidate findCorrectEventId returns has
\* an id other than the current one and is an entry of the index; so the
\* record is corrected exactly when the search returns a candidate, which is
\* exactly when an entry of the index scores above 0.7.
C28_CandidateDiffers ==
  [][ (IsFixStep /\ BelowThreshold(events[i])) =>
        LET candidate == findCorrectEventId(events[i].name, rawEventIndex)
            corrected == /\ Len(fixes') = Len(fixes) + 1
                         /\ events'[i] # events[i]
        IN  /\ candidate # null =>
                 /\ candidate[1].eventId # currentIdOf(events[i])[1]
                 /\ getProperty(rawEventIndex, candidate[1].eventId) # null
            /\ corrected = (\E k \in 1..Len(rawEventIndex) :
                              Less(Frac(7, 10), scoreOf(events[i], rawEventIndex[k])))
            /\ corrected = (candidate # null) ]_vars

\* the search ran for two records: it found an entry of the index for the
\* first and none for the second
C28_Witness ==
  /\ pc = "loop" /\ script = "fix" /\ i = 3
  /\ console = <<[eventIndex |-> 1, message |-> "fixed"],
                 [eventIndex |-> 2, message |-> "no good match"]>>
  /\ getProperty(rawEventIndex, fixes[1].newEventId) # null
  /\ fixes[1].newEventId # fixes[1].oldEventId

\* the last run of the fixer accepted record k as it was, or corrected it
KeptOrCorrected(k) ==
  \/ Accepted(PriorCatalog[k])
  \/ \E n \in 1..Len(fixes) : fixes[n].eventIndex = k

\* the verifier classified record k as a match
Matched(k) ==
  \E m \in 1..Len(verification[1].matches) : verification[1].matches[m].index = k - 1

\* C29: when the verifier is run on the catalog a run of the fixer left,
\* with the same raw_events, every record the fixer accepted or corrected is
\* among the matches of the verifier.
C29_VerifierAgrees ==
  (pc = "verified" /\ runs # <<>>) =>
    \A k \in 1..Len(events) : KeptOrCorrected(k) => Matched(k)

\* a record of the catalog is null, or its link is not a string
IsBadRecord(event) == event = null \/ (hasLink(event) /\ ~linkIsString(event))

\* C22: a catalog with a bad record (a null element, a link that is not a
\* string) never makes the fixer or the verifier abort.
C22_BadRecordNeverAborts ==
  (\E k \in 1..Len(eventsFile.data) : IsBadRecord(eventsFile.data[k])) => pc # "crashed"

====
